---- MODULE Spec2Model ----
(***************************************************************************)
(* Server of the 3D Catan game: the rules engine (GameEngine.ts), the      *)
(* command handlers of the game manager (GameManager.ts) with the games it *)
(* stores, and the socket gateway (socket/index.ts, lobbyHandlers.ts,      *)
(* gameHandlers.ts) with its lobbies, sockets and rooms.                   *)
(*                                                                         *)
(* Strings that the code takes apart (hex ids, vertex ids) are modelled as *)
(* the sequence of their '_'-separated parts: "hex_1_0" is                 *)
(* <<"hex","1","0">>.  Optional values (T | null) that hold records are    *)
(* sequences of length at most one; optional ids use the string NULL.      *)
(***************************************************************************)
EXTENDS Integers, Sequences, FiniteSets, TLC

VARIABLES
  game,           \* activeGames.get(Codes[1]), NoGame while there is none
  other,          \* activeGames.get(Codes[2]), NoGame while there is none
  playerGameMap,  \* player id -> game code
  gateway,        \* the sockets, the lobbies and the countdown timers
  steps           \* the commands that changed the server's state so far

vars == <<game, other, playerGameMap, gateway, steps>>

(***************************************************************************)
(* Bounds of the model: the number of commands that change the stored game *)
(* before the clients fall silent                                          *)
(***************************************************************************)
\* in a game from createGameState on
MaxSteps == 7
\* in a game whose players hold cards from the start
MaxStepsHands == 6
\* in a game whose clients only build
MaxStepsBuild == 14
\* in two games side by side
MaxStepsTwo == 3
\* in the lobbies, counting connections, lobby commands and countdowns
MaxStepsLobby == 5
\* the sockets the gateway accepts
MaxSockets == 4
\* in a game whose clients only buy development cards and pass the turn
MaxStepsCards == 4

(***************************************************************************)
(* Values                                                                  *)
(***************************************************************************)
NULL == "null"

\* the players of the game, in seating (lobby) order
PlayerIds == <<"p1", "p2">>

RESOURCE_TYPES == {"brick", "lumber", "ore", "grain", "wool"}

DevCardTypes == {"knight", "victory_point", "road_building", "year_of_plenty", "monopoly"}

VICTORY_POINTS_TO_WIN == 10

\* the dice rollDice may return in the model: a 7 and an 8
Dice == {<<3, 4>>, <<4, 4>>}

TERRAIN_TO_RESOURCE ==
  [desert |-> NULL, hills |-> "brick", mountains |-> "ore",
   forest |-> "lumber", pasture |-> "wool", fields |-> "grain"]

Res(b, l, o, g, w) == [brick |-> b, lumber |-> l, ore |-> o, grain |-> g, wool |-> w]

BUILDING_COSTS ==
  [road       |-> Res(1, 1, 0, 0, 0),
   settlement |-> Res(1, 1, 0, 1, 1),
   city       |-> Res(0, 0, 3, 2, 0),
   devCard    |-> Res(0, 0, 1, 1, 1)]

\* the cards of each type in the deck of 25 (the cardTypes array of
\* buyDevCard)
DECK_DISTRIBUTION ==
  [knight |-> 14, victory_point |-> 5, road_building |-> 2, year_of_plenty |-> 2,
   monopoly |-> 2]

\* the pieces of each kind a player has (costs.ts)
BUILDING_LIMITS == [settlements |-> 5, cities |-> 4, roads |-> 15]

(***************************************************************************)
(* Hex geometry ids                                                        *)
(***************************************************************************)
\* hexId: `hex_${q}_${r}`
hexId(q, r) == <<"hex", q, r>>

RECURSIVE Join(_)
\* ids.join('_') of already split ids
Join(ids) == IF ids = <<>> THEN <<>> ELSE Head(ids) \o Join(Tail(ids))

\* createVertexId: `v_${ids.join('_')}` (ids are passed sorted)
createVertexId(ids) == <<"v">> \o Join(ids)

\* the part of the generated board the model keeps: four mutually touching hexes
BoardHexes ==
  << [id |-> hexId("0", "0"),  terrain |-> "desert", numberToken |-> 0],
     [id |-> hexId("0", "1"),  terrain |-> "hills",  numberToken |-> 8],
     [id |-> hexId("1", "-1"), terrain |-> "fields", numberToken |-> 8],
     [id |-> hexId("1", "0"),  terrain |-> "forest", numberToken |-> 8] >>

V1 == createVertexId(<<hexId("0", "0"), hexId("0", "1"), hexId("1", "0")>>)
V2 == createVertexId(<<hexId("0", "0"), hexId("1", "-1"), hexId("1", "0")>>)

\* vertex ids clients send
VertexIds == {V1, V2}

\* parseVertexId: the hex ids the vertex id is made of, in its order
parseVertexId(vertexId) ==
  [k \in 1..((Len(vertexId) - 1) \div 3) |-> SubSeq(vertexId, 3 * k - 1, 3 * k + 1)]

\* edge ids clients send
EdgeIds == {"e_hex_0_0_hex_1_0", "e_hex_0_0_hex_0_1"}

\* edge ids clients send in the build-only specification
BuildEdgeIds == EdgeIds \cup {"e_hex_0_1_hex_1_0", "e_hex_0_0_hex_1_-1", "e_hex_1_-1_hex_1_0"}

\* hex ids clients send with robber:move: the desert, a forest and a hex that
\* is not on the board
HexInputs == {hexId("0", "0"), hexId("1", "0"), hexId("9", "9")}

\* victim ids clients send with robber:steal (the last one is no player)
VictimInputs == {PlayerIds[i] : i \in 1..Len(PlayerIds)} \cup {"nobody"}

(***************************************************************************)
(* Sequence helpers (Array.prototype)                                      *)
(***************************************************************************)
Range(s) == {s[i] : i \in 1..Len(s)}

RECURSIVE SumOver(_, _)
SumOver(f, S) ==
  IF S = {} THEN 0
  ELSE LET x == CHOOSE y \in S : TRUE IN f[x] + SumOver(f, S \ {x})

\* the remainder operator of JavaScript: the sign follows the dividend
JsRem(a, n) == IF a >= 0 THEN a % n ELSE 0 - ((0 - a) % n)

(***************************************************************************)
(* resources.ts                                                            *)
(***************************************************************************)
createEmptyResources == Res(0, 0, 0, 0, 0)

countResources(r) == r.brick + r.lumber + r.ore + r.grain + r.wool

addResources(current, toAdd) == [r \in RESOURCE_TYPES |-> current[r] + toAdd[r]]

subtractResources(current, toSubtract) ==
  [r \in RESOURCE_TYPES |-> current[r] - toSubtract[r]]

canAfford(resources, cost) == \A r \in RESOURCE_TYPES : resources[r] >= cost[r]

\* { [resource]: 1 }
One(res) == [r \in RESOURCE_TYPES |-> IF r = res THEN 1 ELSE 0]

(***************************************************************************)
(* player.ts                                                               *)
(***************************************************************************)
calculatePublicVictoryPoints(player) ==
  Len(player.settlements) + Len(player.cities) * 2
    + (IF player.hasLongestRoad THEN 2 ELSE 0)
    + (IF player.hasLargestArmy THEN 2 ELSE 0)

calculateTotalVictoryPoints(player) ==
  calculatePublicVictoryPoints(player)
    + Cardinality({i \in 1..Len(player.devCards) :
                     /\ player.devCards[i].type = "victory_point"
                     /\ ~player.devCards[i].played})

(***************************************************************************)
(* GameEngine.ts                                                           *)
(***************************************************************************)
createPlayerState(id, color) ==
  [id |-> id,
   color |-> color,
   resources |-> createEmptyResources,
   devCards |-> <<>>,
   settlements |-> <<>>,
   cities |-> <<>>,
   roads |-> <<>>,
   knightsPlayed |-> 0,
   longestRoadLength |-> 0,
   hasLongestRoad |-> FALSE,
   hasLargestArmy |-> FALSE,
   publicVictoryPoints |-> 0]

\* generateBoard: no buildings, no roads, the robber on the desert
generateBoard ==
  [hexes |-> BoardHexes,
   buildings |-> <<>>,
   roads |-> <<>>,
   robberHexId |-> (CHOOSE h \in Range(BoardHexes) : h.terrain = "desert").id]

createGameState(players) ==
  [status |-> "playing",
   phase |-> "roll_for_order",
   board |-> generateBoard,
   players |-> players,
   turnOrder |-> [i \in 1..Len(players) |-> players[i].id],
   currentPlayerIndex |-> 0,
   turnNumber |-> 1,
   turnPhase |-> "main",
   lastDiceRoll |-> <<>>,
   devCardDeckCount |-> 25,
   rollForOrderState |-> [rolls |-> <<>>, currentRollerIndex |-> 0, allRolled |-> FALSE],
   setupState |-> <<>>,
   pendingDiscards |-> <<>>,
   roadBuildingRoadsPlaced |-> 0,
   longestRoadHolder |-> NULL,
   longestRoadLength |-> 0,
   largestArmyHolder |-> NULL,
   largestArmySize |-> 0,
   winnerId |-> NULL]

\* game.players.find((p) => p.id === playerId) !== undefined
HasPlayer(g, playerId) == \E i \in 1..Len(g.players) : g.players[i].id = playerId

\* game.players.find((p) => p.id === playerId)
FindPlayer(g, playerId) ==
  g.players[CHOOSE i \in 1..Len(g.players) :
              /\ g.players[i].id = playerId
              /\ \A j \in 1..(i - 1) : g.players[j].id # playerId]

\* game.players.map((p) => p.id !== playerId ? p : updated), where updated
\* is the record the callback builds from p
UpdatePlayer(g, playerId, updated) ==
  [i \in 1..Len(g.players) |->
     IF g.players[i].id # playerId THEN g.players[i] ELSE updated]

\* hex.id.replace('hex_', ''): drops the first "hex_" of the id
ReplaceHexPrefix(id) ==
  IF \E i \in 1..(Len(id) - 1) : id[i] = "hex"
  THEN LET k == CHOOSE i \in 1..(Len(id) - 1) :
                  id[i] = "hex" /\ \A j \in 1..(i - 1) : id[j] # "hex"
       IN  SubSeq(id, 1, k - 1) \o SubSeq(id, k + 1, Len(id))
  ELSE id

\* adjacentHexIds.includes(s): some element of the array is the string s
Includes(array, s) == \E i \in 1..Len(array) : <<array[i]>> = s

\* building.vertexId.split('_').slice(1) includes hex.id.replace('hex_', '')
IsAdjacentBuilding(building, hex) ==
  Includes(Tail(building.vertexId), ReplaceHexPrefix(hex.id))

distributeResources(g, diceTotal) ==
  LET hexes == g.board.hexes
      blds == g.board.buildings
      rolled == {i \in 1..Len(hexes) :
                   /\ hexes[i].numberToken = diceTotal
                   /\ hexes[i].id # g.board.robberHexId}
      hits == {pr \in rolled \X (1..Len(blds)) :
                 /\ TERRAIN_TO_RESOURCE[hexes[pr[1]].terrain] # NULL
                 /\ IsAdjacentBuilding(blds[pr[2]], hexes[pr[1]])}
      amount == [pr \in hits |-> IF blds[pr[2]].type = "city" THEN 2 ELSE 1]
      hitsOf(pid, r) == {pr \in hits :
                           /\ blds[pr[2]].playerId = pid
                           /\ TERRAIN_TO_RESOURCE[hexes[pr[1]].terrain] = r}
  IN  [pid \in {blds[pr[2]].playerId : pr \in hits} |->
         [r \in RESOURCE_TYPES |-> SumOver(amount, hitsOf(pid, r))]]

applyResourceDistributions(g, distributions) ==
  [g EXCEPT !.players =
     [i \in 1..Len(g.players) |->
        IF g.players[i].id \notin DOMAIN distributions THEN g.players[i]
        ELSE [g.players[i] EXCEPT
                !.resources = addResources(@, distributions[g.players[i].id])]]]

\* PendingFrom as it would be with the filter written count >= 7
RECURSIVE PendingFromSeven(_)
PendingFromSeven(players) ==
  IF players = <<>> THEN <<>>
  ELSE LET p == Head(players)
           n == countResources(p.resources)
       IN  (IF n >= 7
            THEN << [playerId |-> p.id, amountToDiscard |-> n \div 2, discarded |-> FALSE] >>
            ELSE <<>>) \o PendingFromSeven(Tail(players))

\* game.players.filter(count > 7).map(...), in the order of game.players
RECURSIVE PendingFrom(_)
PendingFrom(players) ==
  IF players = <<>> THEN <<>>
  ELSE LET p == Head(players)
           n == countResources(p.resources)
       IN  (IF n > 7
            THEN << [playerId |-> p.id, amountToDiscard |-> n \div 2, discarded |-> FALSE] >>
            ELSE <<>>) \o PendingFrom(Tail(players))

\* handleRobber as it would be had the discard phase been forgotten: the
\* turn goes on to robber_move whoever has to discard
handleRobberSkipsDiscard(g) ==
  [g EXCEPT !.turnPhase = "robber_move",
            !.pendingDiscards = PendingFrom(g.players)]

handleRobber(g) ==
  LET pendingDiscards == PendingFrom(g.players)
  IN  [g EXCEPT !.turnPhase = IF Len(pendingDiscards) > 0 THEN "discard" ELSE "robber_move",
                !.pendingDiscards = pendingDiscards]

\* discardResources as it would be with allDiscarded computed by some()
\* instead of every(): the first discard ends the discard phase
discardResourcesFirstEnds(g, playerId, resources) ==
  IF ~HasPlayer(g, playerId) THEN g
  ELSE IF ~\E i \in 1..Len(g.pendingDiscards) : g.pendingDiscards[i].playerId = playerId THEN g
  ELSE
    LET k == CHOOSE i \in 1..Len(g.pendingDiscards) :
               /\ g.pendingDiscards[i].playerId = playerId
               /\ \A j \in 1..(i - 1) : g.pendingDiscards[j].playerId # playerId
        pending == g.pendingDiscards[k]
    IN  IF pending.discarded THEN g
        ELSE IF countResources(resources) # pending.amountToDiscard THEN g
        ELSE [g EXCEPT
                !.players = UpdatePlayer(g, playerId,
                              [FindPlayer(g, playerId) EXCEPT !.resources = subtractResources(@, resources)]),
                !.pendingDiscards =
                  [i \in 1..Len(g.pendingDiscards) |->
                     IF g.pendingDiscards[i].playerId # playerId THEN g.pendingDiscards[i]
                     ELSE [g.pendingDiscards[i] EXCEPT !.discarded = TRUE]],
                !.turnPhase = "robber_move"]

discardResources(g, playerId, resources) ==
  IF ~HasPlayer(g, playerId) THEN g
  ELSE IF ~\E i \in 1..Len(g.pendingDiscards) : g.pendingDiscards[i].playerId = playerId THEN g
  ELSE
    LET k == CHOOSE i \in 1..Len(g.pendingDiscards) :
               /\ g.pendingDiscards[i].playerId = playerId
               /\ \A j \in 1..(i - 1) : g.pendingDiscards[j].playerId # playerId
        pending == g.pendingDiscards[k]
    IN  IF pending.discarded THEN g
        ELSE IF countResources(resources) # pending.amountToDiscard THEN g
        ELSE
          LET updatedPendingDiscards ==
                [i \in 1..Len(g.pendingDiscards) |->
                   IF g.pendingDiscards[i].playerId # playerId THEN g.pendingDiscards[i]
                   ELSE [g.pendingDiscards[i] EXCEPT !.discarded = TRUE]]
              allDiscarded ==
                \A i \in 1..Len(updatedPendingDiscards) : updatedPendingDiscards[i].discarded
          IN  [g EXCEPT
                 !.players = UpdatePlayer(g, playerId,
                               [FindPlayer(g, playerId) EXCEPT !.resources = subtractResources(@, resources)]),
                 !.pendingDiscards = updatedPendingDiscards,
                 !.turnPhase = IF allDiscarded THEN "robber_move" ELSE "discard"]

moveRobber(g, newHexId) ==
  IF newHexId = g.board.robberHexId THEN g
  ELSE IF ~\E i \in 1..Len(g.board.hexes) : g.board.hexes[i].id = newHexId THEN g
  ELSE [g EXCEPT !.board.robberHexId = newHexId, !.turnPhase = "robber_steal"]

\* the cards Math.random may pick from the victim's hand; NULL when the
\* array of available cards is empty
StealChoices(g, victimId) ==
  IF ~HasPlayer(g, victimId) THEN {NULL}
  ELSE LET avail == {r \in RESOURCE_TYPES : FindPlayer(g, victimId).resources[r] > 0}
       IN  IF avail = {} THEN {NULL} ELSE avail

\* stolen is the card picked, one of StealChoices(g, victimId)
stealResource(g, thiefId, victimId, stolen) ==
  IF ~HasPlayer(g, victimId) \/ countResources(FindPlayer(g, victimId).resources) = 0
  THEN [game |-> [g EXCEPT !.turnPhase = "main"], stolenResource |-> NULL]
  ELSE IF stolen = NULL
  THEN [game |-> [g EXCEPT !.turnPhase = "main"], stolenResource |-> NULL]
  ELSE [game |->
          [g EXCEPT
             !.players =
               [i \in 1..Len(g.players) |->
                  IF g.players[i].id = thiefId
                  THEN [g.players[i] EXCEPT !.resources = addResources(@, One(stolen))]
                  ELSE IF g.players[i].id = victimId
                  THEN [g.players[i] EXCEPT !.resources = subtractResources(@, One(stolen))]
                  ELSE g.players[i]],
             !.turnPhase = "main"],
        stolenResource |-> stolen]

canPlaceSettlement(g, playerId, vertexId, isSetupPhase) ==
  IF \E i \in 1..Len(g.board.buildings) : g.board.buildings[i].vertexId = vertexId THEN FALSE
  ELSE IF ~isSetupPhase
          /\ (~HasPlayer(g, playerId)
              \/ ~canAfford(FindPlayer(g, playerId).resources, BUILDING_COSTS.settlement))
  THEN FALSE
  ELSE TRUE

\* placeSettlement as it would be without the publicVictoryPoints update
placeSettlementNoPoint(g, playerId, vertexId) ==
  IF ~HasPlayer(g, playerId) THEN g
  ELSE
    LET isSetupPhase == g.phase = "setup_first" \/ g.phase = "setup_second"
    IN  [g EXCEPT
           !.players = UpdatePlayer(g, playerId,
             [FindPlayer(g, playerId) EXCEPT
               !.resources = IF isSetupPhase THEN @
                             ELSE subtractResources(@, BUILDING_COSTS.settlement),
               !.settlements = Append(@, vertexId)]),
           !.board.buildings =
             Append(@, [vertexId |-> vertexId, playerId |-> playerId, type |-> "settlement"])]

placeSettlement(g, playerId, vertexId) ==
  IF ~HasPlayer(g, playerId) THEN g
  ELSE
    LET isSetupPhase == g.phase = "setup_first" \/ g.phase = "setup_second"
    IN  [g EXCEPT
           !.players = UpdatePlayer(g, playerId,
             [FindPlayer(g, playerId) EXCEPT
               !.resources = IF isSetupPhase THEN @
                             ELSE subtractResources(@, BUILDING_COSTS.settlement),
               !.settlements = Append(@, vertexId),
               !.publicVictoryPoints = @ + 1]),
           !.board.buildings =
             Append(@, [vertexId |-> vertexId, playerId |-> playerId, type |-> "settlement"])]

upgradeToCity(g, playerId, vertexId) ==
  LET IsOwnSettlement(b) ==
        b.vertexId = vertexId /\ b.playerId = playerId /\ b.type = "settlement"
      blds == g.board.buildings
  IN
  IF ~HasPlayer(g, playerId) THEN g
  ELSE IF ~\E i \in 1..Len(blds) : IsOwnSettlement(blds[i]) THEN g
  ELSE IF ~canAfford(FindPlayer(g, playerId).resources, BUILDING_COSTS.city) THEN g
  ELSE
    LET buildingIndex == CHOOSE i \in 1..Len(blds) :
                           /\ IsOwnSettlement(blds[i])
                           /\ \A j \in 1..(i - 1) : ~IsOwnSettlement(blds[j])
    IN  [g EXCEPT
           !.players = UpdatePlayer(g, playerId,
             [FindPlayer(g, playerId) EXCEPT
               !.resources = subtractResources(@, BUILDING_COSTS.city),
               !.settlements = SelectSeq(@, LAMBDA v : v # vertexId),
               !.cities = Append(@, vertexId),
               !.publicVictoryPoints = @ + 1]),
           !.board.buildings[buildingIndex].type = "city"]

\* placeRoad as it would be without the test for an occupied edge
placeRoadAnyEdge(g, playerId, edgeId) ==
  IF ~HasPlayer(g, playerId) THEN g
  ELSE
    LET isSetupPhase == g.phase = "setup_first" \/ g.phase = "setup_second"
        isRoadBuilding == g.turnPhase = "road_building"
        updatedGame ==
          [g EXCEPT
             !.players = UpdatePlayer(g, playerId,
               [FindPlayer(g, playerId) EXCEPT
                 !.resources = IF isSetupPhase \/ isRoadBuilding THEN @
                               ELSE subtractResources(@, BUILDING_COSTS.road),
                 !.roads = Append(@, edgeId)]),
             !.board.roads = Append(@, [edgeId |-> edgeId, playerId |-> playerId])]
        roadsPlaced == g.roadBuildingRoadsPlaced + 1
    IN  IF ~isRoadBuilding THEN updatedGame
        ELSE IF roadsPlaced >= 2
        THEN [updatedGame EXCEPT !.turnPhase = "main", !.roadBuildingRoadsPlaced = 0]
        ELSE [updatedGame EXCEPT !.roadBuildingRoadsPlaced = roadsPlaced]

placeRoad(g, playerId, edgeId) ==
  IF ~HasPlayer(g, playerId) THEN g
  ELSE IF \E i \in 1..Len(g.board.roads) : g.board.roads[i].edgeId = edgeId THEN g
  ELSE
    LET isSetupPhase == g.phase = "setup_first" \/ g.phase = "setup_second"
        isRoadBuilding == g.turnPhase = "road_building"
        updatedGame ==
          [g EXCEPT
             !.players = UpdatePlayer(g, playerId,
               [FindPlayer(g, playerId) EXCEPT
                 !.resources = IF isSetupPhase \/ isRoadBuilding THEN @
                               ELSE subtractResources(@, BUILDING_COSTS.road),
                 !.roads = Append(@, edgeId)]),
             !.board.roads = Append(@, [edgeId |-> edgeId, playerId |-> playerId])]
        roadsPlaced == g.roadBuildingRoadsPlaced + 1
    IN  IF ~isRoadBuilding THEN updatedGame
        ELSE IF roadsPlaced >= 2
        THEN [updatedGame EXCEPT !.turnPhase = "main", !.roadBuildingRoadsPlaced = 0]
        ELSE [updatedGame EXCEPT !.roadBuildingRoadsPlaced = roadsPlaced]

\* the for loop of updateLongestRoad / updateLargestArmy over game.players:
\* best is <<player id, size>> so far, size[id] the size of player id and min
\* the least size that earns the award
RECURSIVE ScanLargest(_, _, _, _)
ScanLargest(players, best, size, min) ==
  IF players = <<>> THEN best
  ELSE LET p == Head(players)
       IN  ScanLargest(Tail(players),
                       IF size[p.id] >= min /\ size[p.id] > best[2]
                       THEN <<p.id, size[p.id]>> ELSE best,
                       size, min)

\* size[id] for updateLongestRoad: player.roads.length
RoadCounts(g) ==
  [id \in {g.players[i].id : i \in 1..Len(g.players)} |-> Len(FindPlayer(g, id).roads)]

\* size[id] for updateLargestArmy: player.knightsPlayed
KnightCounts(g) ==
  [id \in {g.players[i].id : i \in 1..Len(g.players)} |-> FindPlayer(g, id).knightsPlayed]

updateLongestRoad(g) ==
  LET best == ScanLargest(g.players, <<NULL, g.longestRoadLength>>,
                          RoadCounts(g), 5)
      longestPlayer == best[1]
      longestLength == best[2]
  IN  IF longestPlayer # g.longestRoadHolder
      THEN [g EXCEPT
              !.players =
                [i \in 1..Len(g.players) |->
                   LET p == g.players[i]
                       hadLongestRoad == p.id = g.longestRoadHolder
                       hasLongestRoad == p.id = longestPlayer
                   IN  IF hadLongestRoad = hasLongestRoad THEN p
                       ELSE [p EXCEPT
                               !.hasLongestRoad = hasLongestRoad,
                               !.publicVictoryPoints = @ + (IF hasLongestRoad THEN 2 ELSE -2)]],
              !.longestRoadHolder = longestPlayer,
              !.longestRoadLength = longestLength]
      ELSE g

updateLargestArmy(g) ==
  LET best == ScanLargest(g.players, <<NULL, g.largestArmySize>>,
                          KnightCounts(g), 3)
      largestPlayer == best[1]
      largestSize == best[2]
  IN  IF largestPlayer # g.largestArmyHolder
      THEN [g EXCEPT
              !.players =
                [i \in 1..Len(g.players) |->
                   LET p == g.players[i]
                       hadLargestArmy == p.id = g.largestArmyHolder
                       hasLargestArmy == p.id = largestPlayer
                   IN  IF hadLargestArmy = hasLargestArmy THEN p
                       ELSE [p EXCEPT
                               !.hasLargestArmy = hasLargestArmy,
                               !.publicVictoryPoints = @ + (IF hasLargestArmy THEN 2 ELSE -2)]],
              !.largestArmyHolder = largestPlayer,
              !.largestArmySize = largestSize]
      ELSE g

\* checkWinner as it would be if it named the winner and left the phase
checkWinnerKeepsPhase(g) ==
  LET wins == {i \in 1..Len(g.players) :
                 calculateTotalVictoryPoints(g.players[i]) >= VICTORY_POINTS_TO_WIN}
  IN  IF wins = {} THEN g
      ELSE LET first == CHOOSE i \in wins : \A j \in wins : i <= j
           IN  [g EXCEPT !.status = "finished",
                         !.winnerId = g.players[first].id]

checkWinner(g) ==
  LET wins == {i \in 1..Len(g.players) :
                 calculateTotalVictoryPoints(g.players[i]) >= VICTORY_POINTS_TO_WIN}
  IN  IF wins = {} THEN g
      ELSE LET first == CHOOSE i \in wins : \A j \in wins : i <= j
           IN  [g EXCEPT !.status = "finished",
                         !.phase = "finished",
                         !.winnerId = g.players[first].id]

endTurn(g) ==
  LET nextPlayerIndex == JsRem(g.currentPlayerIndex + 1, Len(g.turnOrder))
      isNewRound == nextPlayerIndex = 0
  IN  [g EXCEPT !.currentPlayerIndex = nextPlayerIndex,
                !.turnNumber = IF isNewRound THEN @ + 1 ELSE @,
                !.turnPhase = "pre_roll",
                !.lastDiceRoll = <<>>]

\* cardType is the entry Math.random picks from the 25-entry cardTypes array
buyDevCard(g, playerId, cardType) ==
  IF ~HasPlayer(g, playerId) THEN g
  ELSE IF ~canAfford(FindPlayer(g, playerId).resources, BUILDING_COSTS.devCard) THEN g
  ELSE IF g.devCardDeckCount <= 0 THEN g
  ELSE [g EXCEPT
          !.players = UpdatePlayer(g, playerId,
            [FindPlayer(g, playerId) EXCEPT
              !.resources = subtractResources(@, BUILDING_COSTS.devCard),
              !.devCards = Append(@, [type |-> cardType,
                                      purchasedOnTurn |-> g.turnNumber,
                                      played |-> FALSE])]),
          !.devCardDeckCount = @ - 1]

(***************************************************************************)
(* GameManager.ts: the handlers of the stored game.  Each returns the game *)
(* it stores (the game unchanged when it stores nothing) and its success   *)
(* flag.                                                                   *)
(***************************************************************************)
Fail(g) == [game |-> g, success |-> FALSE]

Done(g) == [game |-> g, success |-> TRUE]

getCurrentPlayer(g) ==
  IF g.currentPlayerIndex + 1 \in 1..Len(g.turnOrder)
  THEN g.turnOrder[g.currentPlayerIndex + 1]
  ELSE IF Len(g.turnOrder) > 0 THEN g.turnOrder[1] ELSE ""

isPlayerTurn(g, playerId) == getCurrentPlayer(g) = playerId

\* newRolls[p.id] ?? 0
RollOf(rolls, p) == IF p.id \in DOMAIN rolls THEN rolls[p.id] ELSE 0

\* [...players].sort((a, b) => roll(b) - roll(a)): a stable sort, highest first
RECURSIVE InsertByRoll(_, _, _)
InsertByRoll(sorted, p, rolls) ==
  IF sorted = <<>> THEN <<p>>
  ELSE IF RollOf(rolls, Head(sorted)) >= RollOf(rolls, p)
       THEN <<Head(sorted)>> \o InsertByRoll(Tail(sorted), p, rolls)
       ELSE <<p>> \o sorted

RECURSIVE SortByRoll(_, _, _)
SortByRoll(sorted, rest, rolls) ==
  IF rest = <<>> THEN sorted
  ELSE SortByRoll(InsertByRoll(sorted, Head(rest), rolls), Tail(rest), rolls)

\* handleRollForOrder without the check of whose turn it is to roll
handleRollForOrderAnyPlayer(g, playerId, dice) ==
  LET st == g.rollForOrderState IN
  IF g.phase # "roll_for_order" THEN Fail(g)
  ELSE IF playerId \in DOMAIN st.rolls THEN Fail(g)
  ELSE
    LET total == dice[1] + dice[2]
        newRolls == [q \in (DOMAIN st.rolls) \cup {playerId} |->
                       IF q = playerId THEN total ELSE st.rolls[q]]
        nextRollerIndex == st.currentRollerIndex + 1
        allRolled == nextRollerIndex >= Len(g.players)
        sortedPlayers == SortByRoll(<<>>, g.players, newRolls)
    IN  IF allRolled
        THEN Done([g EXCEPT
               !.phase = "setup_first",
               !.turnOrder = [i \in 1..Len(sortedPlayers) |-> sortedPlayers[i].id],
               !.currentPlayerIndex = 0,
               !.rollForOrderState = [rolls |-> newRolls,
                                      currentRollerIndex |-> nextRollerIndex,
                                      allRolled |-> TRUE],
               !.setupState = << [currentRound |-> 1,
                                  placementType |-> "settlement",
                                  settlementsNeedingRoads |-> <<>>] >>])
        ELSE Done([g EXCEPT
               !.rollForOrderState = [rolls |-> newRolls,
                                      currentRollerIndex |-> nextRollerIndex,
                                      allRolled |-> FALSE]])

handleRollForOrder(g, playerId, dice) ==
  LET st == g.rollForOrderState IN
  IF g.phase # "roll_for_order" THEN Fail(g)
  ELSE IF ~(st.currentRollerIndex + 1 \in 1..Len(g.turnOrder)
            /\ g.turnOrder[st.currentRollerIndex + 1] = playerId) THEN Fail(g)
  ELSE IF playerId \in DOMAIN st.rolls THEN Fail(g)
  ELSE
    LET total == dice[1] + dice[2]
        newRolls == [q \in (DOMAIN st.rolls) \cup {playerId} |->
                       IF q = playerId THEN total ELSE st.rolls[q]]
        nextRollerIndex == st.currentRollerIndex + 1
        allRolled == nextRollerIndex >= Len(g.players)
        sortedPlayers == SortByRoll(<<>>, g.players, newRolls)
    IN  IF allRolled
        THEN Done([g EXCEPT
               !.phase = "setup_first",
               !.turnOrder = [i \in 1..Len(sortedPlayers) |-> sortedPlayers[i].id],
               !.currentPlayerIndex = 0,
               !.rollForOrderState = [rolls |-> newRolls,
                                      currentRollerIndex |-> nextRollerIndex,
                                      allRolled |-> TRUE],
               !.setupState = << [currentRound |-> 1,
                                  placementType |-> "settlement",
                                  settlementsNeedingRoads |-> <<>>] >>])
        ELSE Done([g EXCEPT
               !.rollForOrderState = [rolls |-> newRolls,
                                      currentRollerIndex |-> nextRollerIndex,
                                      allRolled |-> FALSE]])

handleDiceRoll(g, playerId, dice) ==
  IF ~isPlayerTurn(g, playerId) THEN Fail(g)
  ELSE IF g.turnPhase # "pre_roll" THEN Fail(g)
  ELSE
    LET total == dice[1] + dice[2]
        rolled == [g EXCEPT !.lastDiceRoll = dice]
    IN  IF total = 7 THEN Done(handleRobber(rolled))
        ELSE Done([applyResourceDistributions(rolled, distributeResources(rolled, total))
                     EXCEPT !.turnPhase = "main"])

handleDiscard(g, playerId, resources) ==
  IF g.turnPhase # "discard" THEN Fail(g)
  ELSE Done(discardResources(g, playerId, resources))

handleMoveRobber(g, playerId, hex) ==
  IF ~isPlayerTurn(g, playerId) THEN Fail(g)
  ELSE IF g.turnPhase # "robber_move" THEN Fail(g)
  ELSE Done(moveRobber(g, hex))

handleSteal(g, thiefId, victimId, stolen) ==
  IF ~isPlayerTurn(g, thiefId) THEN Fail(g)
  ELSE IF g.turnPhase # "robber_steal" THEN Fail(g)
  ELSE Done(stealResource(g, thiefId, victimId, stolen).game)

handleBuildSettlement(g, playerId, vertexId) ==
  IF ~isPlayerTurn(g, playerId) THEN Fail(g)
  ELSE
    LET isSetup == g.phase = "setup_first" \/ g.phase = "setup_second" IN
    IF ~isSetup /\ g.turnPhase # "main" THEN Fail(g)
    ELSE
      LET placed == placeSettlement(g, playerId, vertexId)
          st == g.setupState[1]
          needing == st.settlementsNeedingRoads
          advanced ==
            IF isSetup /\ g.setupState # <<>>
            THEN [placed EXCEPT !.setupState =
                    << [st EXCEPT
                          !.placementType = "road",
                          !.settlementsNeedingRoads =
                            [q \in (DOMAIN needing) \cup {playerId} |->
                               IF q = playerId THEN vertexId ELSE needing[q]]] >>]
            ELSE placed
      IN  Done(checkWinner(updateLongestRoad(advanced)))

handleBuildCity(g, playerId, vertexId) ==
  IF ~isPlayerTurn(g, playerId) THEN Fail(g)
  ELSE IF g.turnPhase # "main" THEN Fail(g)
  ELSE Done(checkWinner(upgradeToCity(g, playerId, vertexId)))

handleBuildRoad(g, playerId, edgeId) ==
  IF ~isPlayerTurn(g, playerId) THEN Fail(g)
  ELSE
    LET isSetup == g.phase = "setup_first" \/ g.phase = "setup_second"
        isRoadBuilding == g.turnPhase = "road_building"
    IN
    IF ~isSetup /\ ~isRoadBuilding /\ g.turnPhase # "main" THEN Fail(g)
    ELSE
      LET placed == placeRoad(g, playerId, edgeId)
          n == Len(g.turnOrder)
          st == g.setupState[1]
          needing == st.settlementsNeedingRoads
          newSettlementsNeedingRoads ==
            [q \in (DOMAIN needing) \ {playerId} |-> needing[q]]
          nextPlayerIndex ==
            JsRem(g.currentPlayerIndex + (IF g.phase = "setup_second" THEN -1 ELSE 1), n)
          isRoundComplete ==
            IF g.phase = "setup_first"
            THEN nextPlayerIndex = 0 /\ g.currentPlayerIndex = n - 1
            ELSE nextPlayerIndex = n - 1 /\ g.currentPlayerIndex = 0
          advanced ==
            IF ~(isSetup /\ g.setupState # <<>>) THEN placed
            ELSE IF isRoundComplete
            THEN IF g.phase = "setup_first"
                 THEN [placed EXCEPT
                         !.phase = "setup_second",
                         !.currentPlayerIndex = n - 1,
                         !.setupState = << [currentRound |-> 2,
                                            placementType |-> "settlement",
                                            settlementsNeedingRoads |-> <<>>] >>]
                 ELSE [placed EXCEPT
                         !.phase = "playing",
                         !.currentPlayerIndex = 0,
                         !.turnPhase = "pre_roll",
                         !.setupState = <<>>]
            ELSE [placed EXCEPT
                    !.currentPlayerIndex =
                      IF g.phase = "setup_second"
                      THEN JsRem(g.currentPlayerIndex - 1 + n, n)
                      ELSE nextPlayerIndex,
                    !.setupState =
                      << [st EXCEPT
                            !.placementType = "settlement",
                            !.settlementsNeedingRoads = newSettlementsNeedingRoads] >>]
      IN  Done(updateLongestRoad(advanced))

handleBuyDevCard(g, playerId, cardType) ==
  IF ~isPlayerTurn(g, playerId) THEN Fail(g)
  ELSE IF g.turnPhase # "main" THEN Fail(g)
  ELSE Done(checkWinner(updateLargestArmy(buyDevCard(g, playerId, cardType))))

handleEndTurn(g, playerId) ==
  IF ~isPlayerTurn(g, playerId) THEN Fail(g)
  ELSE IF g.turnPhase # "main" THEN Fail(g)
  ELSE Done(endTurn(g))

(***************************************************************************)
(* GameManager.ts: the stored games.  games is activeGames, a function     *)
(* from game code to the game stored under it (NoGame: no such key), and   *)
(* pgm is playerGameMap.                                                   *)
(***************************************************************************)
\* the value of activeGames.get(code) for a code that is not a key
NoGame == [status |-> "undefined"]

\* the game codes lobby:create hands out, in the order it hands them out
Codes == <<"AAAAAA", "BBBBBB">>

\* the players of the game under Codes[2], in seating order
OtherPlayerIds == <<"p3", "p4">>

getPlayerGameCode(pgm, playerId) ==
  IF playerId \in DOMAIN pgm THEN pgm[playerId] ELSE NULL

\* updateGame as it would be if it stored the new state under every code
updateGameEveryCode(games, code, newState) == [c \in DOMAIN games |-> newState]

updateGame(games, code, newState) == [games EXCEPT ![code] = newState]

\* const game = activeGames.get(code); if (!game) return { success: false }
GameNotFound(games, code) == games[code] = NoGame

(***************************************************************************)
(* gameHandlers.ts: what each socket.on handler of a socket bound to       *)
(* playerId does with a command: the games it leaves stored, and the       *)
(* events it emits in order, each to the submitting socket or to a room.   *)
(***************************************************************************)
ToSocket(event) == [to |-> <<"socket">>, event |-> event]

ToRoom(gameCode, event) == [to |-> <<"room", gameCode>>, event |-> event]

\* nothing stored, nothing emitted
Silent(games) == [games |-> games, emits |-> <<>>]

\* if (!result.success) { socket.emit('build:error', ...); return }
\* otherwise the handler has stored result.game and io.to(gameCode) emits events
Relay(games, gameCode, result, events) ==
  IF ~result.success
  THEN [games |-> games, emits |-> <<ToSocket("build:error")>>]
  ELSE [games |-> updateGame(games, gameCode, result.game),
        emits |-> [i \in 1..Len(events) |-> ToRoom(gameCode, events[i])]]

onRollForOrder(games, pgm, playerId, dice) ==
  LET gameCode == getPlayerGameCode(pgm, playerId) IN
  IF gameCode = NULL THEN [games |-> games, emits |-> <<ToSocket("build:error")>>]
  ELSE
    LET result == IF GameNotFound(games, gameCode) THEN Fail(NoGame)
                  ELSE handleRollForOrder(games[gameCode], playerId, dice)
    IN  Relay(games, gameCode, result,
              <<"game:roll_for_order_result", "game:state">>
              \o (IF result.success /\ result.game.rollForOrderState.allRolled
                  THEN <<"game:phase_changed">> ELSE <<>>))

onRollDice(games, pgm, playerId, dice) ==
  LET gameCode == getPlayerGameCode(pgm, playerId) IN
  IF gameCode = NULL THEN [games |-> games, emits |-> <<ToSocket("build:error")>>]
  ELSE
    LET result == IF GameNotFound(games, gameCode) THEN Fail(NoGame)
                  ELSE handleDiceRoll(games[gameCode], playerId, dice)
        total == dice[1] + dice[2]
        distributions ==
          IF total = 7 THEN <<>>
          ELSE distributeResources([games[gameCode] EXCEPT !.lastDiceRoll = dice], total)
        needsDiscard == total = 7 /\ result.game.turnPhase = "discard"
    IN  Relay(games, gameCode, result,
              <<"dice:rolled">>
              \o (IF result.success /\ DOMAIN distributions # {}
                  THEN <<"dice:resources_distributed">> ELSE <<>>)
              \o (IF result.success /\ needsDiscard THEN <<"robber:discard_required">>
                  ELSE IF total = 7 THEN <<"robber:activated">> ELSE <<>>)
              \o <<"game:state">>)

onRobberDiscard(games, pgm, playerId, resources) ==
  LET gameCode == getPlayerGameCode(pgm, playerId) IN
  IF gameCode = NULL THEN Silent(games)
  ELSE
    LET result == IF GameNotFound(games, gameCode) THEN Fail(NoGame)
                  ELSE handleDiscard(games[gameCode], playerId, resources)
        allDiscarded == result.game.turnPhase # "discard"
    IN  Relay(games, gameCode, result,
              <<"robber:player_discarded">>
              \o (IF result.success /\ allDiscarded THEN <<"robber:activated">> ELSE <<>>)
              \o <<"game:state">>)

onRobberMove(games, pgm, playerId, hex) ==
  LET gameCode == getPlayerGameCode(pgm, playerId) IN
  IF gameCode = NULL THEN Silent(games)
  ELSE
    LET result == IF GameNotFound(games, gameCode) THEN Fail(NoGame)
                  ELSE handleMoveRobber(games[gameCode], playerId, hex)
    IN  Relay(games, gameCode, result, <<"robber:moved", "game:state">>)

onRobberSteal(games, pgm, playerId, victimId, stolen) ==
  LET gameCode == getPlayerGameCode(pgm, playerId) IN
  IF gameCode = NULL THEN Silent(games)
  ELSE
    LET result == IF GameNotFound(games, gameCode) THEN Fail(NoGame)
                  ELSE handleSteal(games[gameCode], playerId, victimId, stolen)
    IN  Relay(games, gameCode, result, <<"robber:steal", "game:state">>)

onBuildSettlement(games, pgm, playerId, vertexId) ==
  LET gameCode == getPlayerGameCode(pgm, playerId) IN
  IF gameCode = NULL THEN Silent(games)
  ELSE
    LET result == IF GameNotFound(games, gameCode) THEN Fail(NoGame)
                  ELSE handleBuildSettlement(games[gameCode], playerId, vertexId)
    IN  Relay(games, gameCode, result,
              <<"build:settlement_placed", "game:state">>
              \o (IF result.success /\ result.game.winnerId # NULL
                  THEN <<"game:ended">> ELSE <<>>))

onBuildCity(games, pgm, playerId, vertexId) ==
  LET gameCode == getPlayerGameCode(pgm, playerId) IN
  IF gameCode = NULL THEN Silent(games)
  ELSE
    LET result == IF GameNotFound(games, gameCode) THEN Fail(NoGame)
                  ELSE handleBuildCity(games[gameCode], playerId, vertexId)
    IN  Relay(games, gameCode, result,
              <<"build:city_placed", "game:state">>
              \o (IF result.success /\ result.game.winnerId # NULL
                  THEN <<"game:ended">> ELSE <<>>))

onBuildRoad(games, pgm, playerId, edgeId) ==
  LET gameCode == getPlayerGameCode(pgm, playerId) IN
  IF gameCode = NULL THEN Silent(games)
  ELSE
    LET result == IF GameNotFound(games, gameCode) THEN Fail(NoGame)
                  ELSE handleBuildRoad(games[gameCode], playerId, edgeId)
    IN  Relay(games, gameCode, result,
              <<"build:road_placed", "game:state">>
              \o (IF result.success /\ result.game.phase = "playing"
                  THEN <<"game:phase_changed">> ELSE <<>>))

onBuildDevCard(games, pgm, playerId, cardType) ==
  LET gameCode == getPlayerGameCode(pgm, playerId) IN
  IF gameCode = NULL THEN Silent(games)
  ELSE
    LET result == IF GameNotFound(games, gameCode) THEN Fail(NoGame)
                  ELSE handleBuyDevCard(games[gameCode], playerId, cardType)
    IN  Relay(games, gameCode, result,
              <<"devcard:purchased", "game:state">>
              \o (IF result.success /\ result.game.winnerId # NULL
                  THEN <<"game:ended">> ELSE <<>>))

onEndTurn(games, pgm, playerId) ==
  LET gameCode == getPlayerGameCode(pgm, playerId) IN
  IF gameCode = NULL THEN Silent(games)
  ELSE
    LET result == IF GameNotFound(games, gameCode) THEN Fail(NoGame)
                  ELSE handleEndTurn(games[gameCode], playerId)
    IN  Relay(games, gameCode, result, <<"game:turn_changed", "game:state">>)

\* game:request_state: the stored game goes to the requesting socket only
onRequestState(games, pgm, playerId) ==
  LET gameCode == getPlayerGameCode(pgm, playerId) IN
  IF gameCode = NULL \/ GameNotFound(games, gameCode) THEN Silent(games)
  ELSE [games |-> games, emits |-> <<ToSocket("game:state")>>]

(***************************************************************************)
(* socket/index.ts and lobbyHandlers.ts.  gw is the gateway's state:       *)
(*   sockets        the sockets accepted so far; a socket's id is its      *)
(*                  index, and it carries the playerId its handlers were   *)
(*                  registered with, the rooms it has joined and whether   *)
(*                  it is still connected                                  *)
(*   activeLobbies  the keys of the activeLobbies map, in insertion order  *)
(*   lobbyData      the LobbyData object made for each code; handlers and  *)
(*                  countdown timers that hold the object see its changes  *)
(*   timers         the codes of the lobbies whose setTimeout is pending   *)
(***************************************************************************)
PLAYER_COLORS == <<"red", "blue", "orange", "white">>

PlayerOf(gw, socketId) == gw.sockets[socketId].playerId

Lobby(gw, code) == gw.lobbyData[code][1]

\* activeLobbies.has(code)
HasLobby(gw, code) == \E i \in 1..Len(gw.activeLobbies) : gw.activeLobbies[i] = code

\* socket.join(code) and socket.leave(code)
JoinRoom(gw, socketId, code) ==
  [gw EXCEPT !.sockets[socketId].rooms = @ \cup {code}]

LeaveRoom(gw, socketId, code) ==
  [gw EXCEPT !.sockets[socketId].rooms = @ \ {code}]

\* the sockets an emit to room code reaches
Subscribers(gw, code) ==
  {i \in 1..Len(gw.sockets) : gw.sockets[i].connected /\ code \in gw.sockets[i].rooms}

ToOthers(code, event) == [to |-> <<"others", code>>, event |-> event]

Quiet(gw) == [gw |-> gw, emits |-> <<>>]

\* lobby.players.findIndex((p) => p.id === playerId), counted from 1; 0: none
FindIndex(players, playerId) ==
  LET found == {i \in 1..Len(players) : players[i].id = playerId} IN
  IF found = {} THEN 0 ELSE CHOOSE i \in found : \A j \in found : i <= j

\* the keys of activeLobbies without code
RECURSIVE Delete(_, _)
Delete(codes, code) ==
  IF codes = <<>> THEN <<>>
  ELSE IF Head(codes) = code THEN Delete(Tail(codes), code)
  ELSE <<Head(codes)>> \o Delete(Tail(codes), code)

\* for (const [code, lobby] of activeLobbies): the first lobby that has the
\* player; NULL: none
RECURSIVE LobbyOfPlayer(_, _, _)
LobbyOfPlayer(gw, codes, playerId) ==
  IF codes = <<>> THEN NULL
  ELSE IF FindIndex(Lobby(gw, Head(codes)).players, playerId) # 0 THEN Head(codes)
  ELSE LobbyOfPlayer(gw, Tail(codes), playerId)

\* the first lobby whose hostId is the player; NULL: none
RECURSIVE LobbyOfHost(_, _, _)
LobbyOfHost(gw, codes, playerId) ==
  IF codes = <<>> THEN NULL
  ELSE IF Lobby(gw, Head(codes)).hostId = playerId THEN Head(codes)
  ELSE LobbyOfHost(gw, Tail(codes), playerId)

getNextAvailableColor(lobby) ==
  LET usedColors == {lobby.players[i].color : i \in 1..Len(lobby.players)}
      free == {i \in 1..Len(PLAYER_COLORS) : PLAYER_COLORS[i] \notin usedColors}
  IN  IF free # {}
      THEN PLAYER_COLORS[CHOOSE i \in free : \A j \in free : i <= j]
      ELSE PLAYER_COLORS[1]

\* io.on('connection'): the handshake's playerId is reused, and the new
\* socket joins no room
onConnection(gw, playerId) ==
  [gw |-> [gw EXCEPT !.sockets =
             Append(@, [playerId |-> playerId, rooms |-> {}, connected |-> TRUE])],
   emits |-> <<ToSocket("connection:established")>>]

\* a disconnected socket has left its rooms and fires no handler any more
onDisconnect(gw, socketId) ==
  [gw |-> [gw EXCEPT !.sockets[socketId] = [@ EXCEPT !.rooms = {}, !.connected = FALSE]],
   emits |-> <<>>]

\* code is the generated code, one that is no key of activeLobbies
onLobbyCreate(gw, socketId, maxPlayers, code) ==
  LET playerId == PlayerOf(gw, socketId)
      lobby == [code |-> code,
                hostId |-> playerId,
                players |-> << [id |-> playerId, socketId |-> socketId, color |-> "red",
                                isReady |-> FALSE, isHost |-> TRUE] >>,
                maxPlayers |-> maxPlayers,
                status |-> "waiting"]
  IN  [gw |-> JoinRoom([gw EXCEPT !.lobbyData[code] = <<lobby>>,
                                  !.activeLobbies = Append(@, code)],
                       socketId, code),
       emits |-> <<ToSocket("lobby:state")>>]

onLobbyJoin(gw, socketId, gameCode) ==
  LET playerId == PlayerOf(gw, socketId) IN
  IF ~HasLobby(gw, gameCode)
  THEN [gw |-> gw, emits |-> <<ToSocket("lobby:error")>>]
  ELSE
    LET lobby == Lobby(gw, gameCode)
        existing == FindIndex(lobby.players, playerId)
        newPlayer == [id |-> playerId, socketId |-> socketId,
                      color |-> getNextAvailableColor(lobby),
                      isReady |-> FALSE, isHost |-> FALSE]
    IN  IF lobby.status # "waiting"
        THEN [gw |-> gw, emits |-> <<ToSocket("lobby:error")>>]
        ELSE IF existing # 0
        THEN [gw |-> JoinRoom([gw EXCEPT !.lobbyData[gameCode][1].players[existing].socketId
                                           = socketId],
                              socketId, gameCode),
              emits |-> <<ToSocket("lobby:state"), ToOthers(gameCode, "player:reconnected")>>]
        ELSE IF Len(lobby.players) >= lobby.maxPlayers
        THEN [gw |-> gw, emits |-> <<ToSocket("lobby:error")>>]
        ELSE [gw |-> JoinRoom([gw EXCEPT !.lobbyData[gameCode][1].players =
                                           Append(@, newPlayer)],
                              socketId, gameCode),
              emits |-> <<ToRoom(gameCode, "lobby:player_joined"), ToSocket("lobby:state")>>]

onLobbyLeave(gw, socketId) ==
  LET playerId == PlayerOf(gw, socketId)
      code == LobbyOfPlayer(gw, gw.activeLobbies, playerId)
  IN
  IF code = NULL THEN Quiet(gw)
  ELSE
    LET lobby == Lobby(gw, code)
        playerIndex == FindIndex(lobby.players, playerId)
        rest == SubSeq(lobby.players, 1, playerIndex - 1)
                \o SubSeq(lobby.players, playerIndex + 1, Len(lobby.players))
        left == LeaveRoom(gw, socketId, code)
    IN  IF rest = <<>>
        THEN [gw |-> [left EXCEPT
                        !.lobbyData[code][1].players = rest,
                        !.activeLobbies = Delete(@, code)],
              emits |-> <<>>]
        ELSE IF lobby.hostId = playerId
        THEN [gw |-> [left EXCEPT
                        !.lobbyData[code][1].players =
                          [i \in 1..Len(rest) |->
                             IF i = 1 THEN [rest[i] EXCEPT !.isHost = TRUE] ELSE rest[i]],
                        !.lobbyData[code][1].hostId = rest[1].id],
              emits |-> <<ToRoom(code, "lobby:player_left")>>]
        ELSE [gw |-> [left EXCEPT !.lobbyData[code][1].players = rest],
              emits |-> <<ToRoom(code, "lobby:player_left")>>]

onLobbyReady(gw, socketId, isReady) ==
  LET playerId == PlayerOf(gw, socketId)
      code == LobbyOfPlayer(gw, gw.activeLobbies, playerId)
  IN
  IF code = NULL THEN Quiet(gw)
  ELSE [gw |-> [gw EXCEPT
                  !.lobbyData[code][1].players[FindIndex(Lobby(gw, code).players, playerId)]
                     .isReady = isReady],
        emits |-> <<ToRoom(code, "lobby:player_ready")>>]

onLobbySetColor(gw, socketId, color) ==
  LET playerId == PlayerOf(gw, socketId)
      code == LobbyOfPlayer(gw, gw.activeLobbies, playerId)
  IN
  IF code = NULL THEN Quiet(gw)
  ELSE
    LET players == Lobby(gw, code).players IN
    IF \E i \in 1..Len(players) : players[i].id # playerId /\ players[i].color = color
    THEN [gw |-> gw, emits |-> <<ToSocket("lobby:error")>>]
    ELSE [gw |-> [gw EXCEPT
                    !.lobbyData[code][1].players[FindIndex(players, playerId)].color = color],
          emits |-> <<ToRoom(code, "lobby:player_color")>>]

\* onLobbyStartGame as it would be without the check that all are ready
onLobbyStartGameUnready(gw, socketId) ==
  LET playerId == PlayerOf(gw, socketId)
      code == LobbyOfHost(gw, gw.activeLobbies, playerId)
  IN
  IF code = NULL THEN Quiet(gw)
  ELSE
    LET players == Lobby(gw, code).players IN
    IF Len(players) < 2
    THEN [gw |-> gw, emits |-> <<ToSocket("lobby:error")>>]
    ELSE [gw |-> [gw EXCEPT !.lobbyData[code][1].status = "starting",
                            !.timers = Append(@, code)],
          emits |-> <<ToRoom(code, "lobby:game_starting")>>]

onLobbyStartGame(gw, socketId) ==
  LET playerId == PlayerOf(gw, socketId)
      code == LobbyOfHost(gw, gw.activeLobbies, playerId)
  IN
  IF code = NULL THEN Quiet(gw)
  ELSE
    LET players == Lobby(gw, code).players IN
    IF Len(players) < 2
    THEN [gw |-> gw, emits |-> <<ToSocket("lobby:error")>>]
    ELSE IF ~\A i \in 1..Len(players) : players[i].isReady \/ players[i].isHost
    THEN [gw |-> gw, emits |-> <<ToSocket("lobby:error")>>]
    ELSE [gw |-> [gw EXCEPT !.lobbyData[code][1].status = "starting",
                            !.timers = Append(@, code)],
          emits |-> <<ToRoom(code, "lobby:game_starting")>>]

\* createGame(lobby): the game made of the lobby's players is stored under
\* the lobby's code and every player is mapped to the code
createGame(games, pgm, lobby) ==
  LET players ==
        [index \in 1..Len(lobby.players) |->
           createPlayerState(
             lobby.players[index].id,
             IF lobby.players[index].color # "" THEN lobby.players[index].color
             ELSE IF index <= Len(PLAYER_COLORS) THEN PLAYER_COLORS[index]
             ELSE "red")]
      ids == {players[i].id : i \in 1..Len(players)}
  IN  [games |-> [games EXCEPT ![lobby.code] = createGameState(players)],
       pgm |-> [q \in (DOMAIN pgm) \cup ids |-> IF q \in ids THEN lobby.code ELSE pgm[q]]]

\* the setTimeout callback of the countdown that was started first: it
\* marks its lobby started, after createGame(lobby)
onCountdown(gw) ==
  LET code == Head(gw.timers) IN
  [gw |-> [gw EXCEPT !.lobbyData[code][1].status = "started",
                     !.timers = Tail(@)],
   emits |-> <<ToRoom(code, "game:started")>>]

(***************************************************************************)
(* The server as a state machine: one action per client command           *)
(* (gameHandlers.ts routes every command of a player to its handler and    *)
(* updateGame stores what the handler returns), per lobby command, per     *)
(* connection and per countdown that runs out.                             *)
(***************************************************************************)
Players == Range(PlayerIds)

\* activeGames, as a function of the codes
activeGames == [c \in Range(Codes) |-> IF c = Codes[1] THEN game ELSE other]

\* the lobby the game under code was started from: the host made it for 4
\* players, the others joined in seating order and set themselves ready;
\* the players' sockets are firstSocket, firstSocket + 1, ...
StartedLobby(code, ids, firstSocket) ==
  [code |-> code,
   hostId |-> ids[1],
   players |-> [i \in 1..Len(ids) |->
                  [id |-> ids[i], socketId |-> firstSocket + i - 1,
                   color |-> PLAYER_COLORS[i], isReady |-> i # 1, isHost |-> i = 1]],
   maxPlayers |-> 4,
   status |-> "started"]

\* the gateway once the games under the first n codes have started: every
\* player has one socket, subscribed to the room of the player's game
GatewayStarted(n) ==
  LET ids == SubSeq(PlayerIds \o OtherPlayerIds, 1, 2 * n)
      codeOf(i) == Codes[(i + 1) \div 2]
  IN  [sockets |-> [i \in 1..Len(ids) |->
                      [playerId |-> ids[i], rooms |-> {codeOf(i)}, connected |-> TRUE]],
       activeLobbies |-> SubSeq(Codes, 1, n),
       lobbyData |-> [c \in Range(Codes) |->
                        IF c = Codes[1] /\ n >= 1
                        THEN <<StartedLobby(c, PlayerIds, 1)>>
                        ELSE IF c = Codes[2] /\ n >= 2
                        THEN <<StartedLobby(c, OtherPlayerIds, 3)>>
                        ELSE <<>>],
       timers |-> <<>>]

\* what createGame leaves of the lobby under Codes[1]
FirstGame ==
  createGame([c \in Range(Codes) |-> NoGame], <<>>, StartedLobby(Codes[1], PlayerIds, 1))

\* what createGame then leaves of the lobby under Codes[2]
BothGames ==
  createGame(FirstGame.games, FirstGame.pgm, StartedLobby(Codes[2], OtherPlayerIds, 3))

\* hands the players may hold: 8 cards that pay for a road, and 10 cards
\* that pay for any one purchase; both are more than 7 cards
HandSet == {Res(3, 3, 2, 0, 0), Res(2, 2, 3, 2, 1)}

\* payloads of robber:discard: 4 cards, 5 cards, 4 cards of one kind, 1 card
DiscardInputs == {Res(2, 2, 0, 0, 0), Res(1, 1, 1, 1, 1), Res(0, 0, 4, 0, 0), Res(1, 0, 0, 0, 0)}

\* updateGame(code, updatedGame): the game the handler returns is stored;
\* steps counts the commands that changed the stored game, at most max
Store(r, max) ==
  /\ steps < max
  /\ game' = r.game
  /\ steps' = IF r.game = game THEN steps ELSE steps + 1
  /\ UNCHANGED <<other, playerGameMap, gateway>>

\* the server when the game under Codes[1] has just been created
Init ==
  /\ game = FirstGame.games[Codes[1]]
  /\ other = NoGame
  /\ playerGameMap = FirstGame.pgm
  /\ gateway = GatewayStarted(1)
  /\ steps = 0

\* the game as created, with every player holding some hand of HandSet: the
\* start for properties stated for any hands the players may hold
InitHands ==
  /\ \E hands \in [1..Len(PlayerIds) -> HandSet] :
       game = [FirstGame.games[Codes[1]] EXCEPT
                 !.players = [i \in 1..Len(PlayerIds) |->
                                [@[i] EXCEPT !.resources = hands[i]]]]
  /\ other = NoGame
  /\ playerGameMap = FirstGame.pgm
  /\ gateway = GatewayStarted(1)
  /\ steps = 0

\* hands of players who go on to build: 8 cards that pay for a road, and
\* 10 cards that pay for a settlement and then its city
BuildHandSet == {Res(3, 3, 2, 0, 0), Res(1, 1, 3, 3, 2)}

\* the game as created, with every player holding some hand of BuildHandSet
InitBuildHands ==
  /\ \E hands \in [1..Len(PlayerIds) -> BuildHandSet] :
       game = [FirstGame.games[Codes[1]] EXCEPT
                 !.players = [i \in 1..Len(PlayerIds) |->
                                [@[i] EXCEPT !.resources = hands[i]]]]
  /\ other = NoGame
  /\ playerGameMap = FirstGame.pgm
  /\ gateway = GatewayStarted(1)
  /\ steps = 0

RollForOrder(max) ==
  \E p \in Players, dice \in Dice :
    Store(handleRollForOrder(game, p, dice), max)

RollDice(max) ==
  \E p \in Players, dice \in Dice :
    Store(handleDiceRoll(game, p, dice), max)

Discard(max) ==
  \E p \in Players, resources \in DiscardInputs :
    Store(handleDiscard(game, p, resources), max)

MoveRobber(max) ==
  \E p \in Players, hex \in HexInputs :
    Store(handleMoveRobber(game, p, hex), max)

Steal(max) ==
  \E p \in Players, victimId \in VictimInputs :
    \E stolen \in StealChoices(game, victimId) :
      Store(handleSteal(game, p, victimId, stolen), max)

BuildSettlement(vertexIds, max) ==
  \E p \in Players, vertexId \in vertexIds :
    Store(handleBuildSettlement(game, p, vertexId), max)

BuildCity(max) ==
  \E p \in Players, vertexId \in VertexIds :
    Store(handleBuildCity(game, p, vertexId), max)

BuildRoad(edgeIds, max) ==
  \E p \in Players, edgeId \in edgeIds :
    Store(handleBuildRoad(game, p, edgeId), max)

BuyDevCard(max) ==
  \E p \in Players, cardType \in DevCardTypes :
    Store(handleBuyDevCard(game, p, cardType), max)

EndTurn(max) ==
  \E p \in Players : Store(handleEndTurn(game, p), max)

Next ==
  \/ RollForOrder(MaxSteps)
  \/ RollDice(MaxSteps)
  \/ Discard(MaxSteps)
  \/ MoveRobber(MaxSteps)
  \/ Steal(MaxSteps)
  \/ BuildSettlement(VertexIds, MaxSteps)
  \/ BuildCity(MaxSteps)
  \/ BuildRoad(EdgeIds, MaxSteps)
  \/ BuyDevCard(MaxSteps)
  \/ EndTurn(MaxSteps)

NextHands ==
  \/ RollForOrder(MaxStepsHands)
  \/ RollDice(MaxStepsHands)
  \/ Discard(MaxStepsHands)
  \/ MoveRobber(MaxStepsHands)
  \/ Steal(MaxStepsHands)
  \/ BuildSettlement(VertexIds, MaxStepsHands)
  \/ BuildCity(MaxStepsHands)
  \/ BuildRoad(EdgeIds, MaxStepsHands)
  \/ BuyDevCard(MaxStepsHands)
  \/ EndTurn(MaxStepsHands)

\* clients that send nothing but build:settlement on V1 and build:road
NextBuild ==
  \/ BuildSettlement({V1}, MaxStepsBuild)
  \/ BuildRoad(BuildEdgeIds, MaxStepsBuild)

\* clients that send nothing but build:settlement on V1, build:city and
\* build:road
NextBuildHands ==
  \/ BuildSettlement({V1}, MaxStepsBuild)
  \/ BuildCity(MaxStepsBuild)
  \/ BuildRoad(BuildEdgeIds, MaxStepsBuild)

\* a game from createGameState on
Spec == Init /\ [][Next]_vars

\* a game from createGameState on, for any hands of HandSet
SpecHands == InitHands /\ [][NextHands]_vars

\* a game from createGameState on in which the clients only build
SpecBuild == Init /\ [][NextBuild]_vars

\* a game in which the clients only build, for any hands of BuildHandSet
SpecBuildHands == InitBuildHands /\ [][NextBuildHands]_vars

\* the hand of players who go on to buy development cards: 9 cards that pay
\* for three of them
CardHand == Res(0, 0, 3, 3, 3)

\* the game as created, with every player holding CardHand
InitCards ==
  /\ game = [FirstGame.games[Codes[1]] EXCEPT
               !.players = [i \in 1..Len(PlayerIds) |-> [@[i] EXCEPT !.resources = CardHand]]]
  /\ other = NoGame
  /\ playerGameMap = FirstGame.pgm
  /\ gateway = GatewayStarted(1)
  /\ steps = 0

\* clients that send nothing but build:dev_card, game:end_turn and
\* game:roll_dice
NextCards ==
  \/ BuyDevCard(MaxStepsCards)
  \/ EndTurn(MaxStepsCards)
  \/ RollDice(MaxStepsCards)

\* a game in which the clients only buy development cards and pass the turn
SpecCards == InitCards /\ [][NextCards]_vars

(***************************************************************************)
(* Two games side by side: the commands arrive on the players' sockets and *)
(* gameHandlers.ts routes each to the game of the socket's player.         *)
(***************************************************************************)
Connected == {i \in 1..Len(gateway.sockets) : gateway.sockets[i].connected}

\* the hands of the players of the two games: in the first 7 cards, which
\* a roll of 7 leaves alone, in the second 10 cards that pay for any one
\* purchase
TwoHands == <<Res(1, 1, 3, 1, 1), Res(2, 2, 3, 2, 1)>>

\* the server when the games under both codes have just been created, the
\* players holding TwoHands
InitTwo ==
  /\ game = [BothGames.games[Codes[1]] EXCEPT
               !.players = [i \in 1..Len(PlayerIds) |->
                              [@[i] EXCEPT !.resources = TwoHands[1]]]]
  /\ other = [BothGames.games[Codes[2]] EXCEPT
                !.players = [i \in 1..Len(OtherPlayerIds) |->
                               [@[i] EXCEPT !.resources = TwoHands[2]]]]
  /\ playerGameMap = BothGames.pgm
  /\ gateway = GatewayStarted(2)
  /\ steps = 0

\* the games the socket handler leaves are the stored games
StoreGames(r, max) ==
  /\ steps < max
  /\ game' = r.games[Codes[1]]
  /\ other' = r.games[Codes[2]]
  /\ steps' = IF r.games = activeGames THEN steps ELSE steps + 1
  /\ UNCHANGED <<playerGameMap, gateway>>

SocketRollForOrder(max) ==
  \E s \in Connected, dice \in Dice :
    StoreGames(onRollForOrder(activeGames, playerGameMap, PlayerOf(gateway, s), dice), max)

SocketRollDice(max) ==
  \E s \in Connected, dice \in Dice :
    StoreGames(onRollDice(activeGames, playerGameMap, PlayerOf(gateway, s), dice), max)

SocketDiscard(max) ==
  \E s \in Connected, resources \in DiscardInputs :
    StoreGames(onRobberDiscard(activeGames, playerGameMap, PlayerOf(gateway, s), resources), max)

SocketMoveRobber(max) ==
  \E s \in Connected, hex \in HexInputs :
    StoreGames(onRobberMove(activeGames, playerGameMap, PlayerOf(gateway, s), hex), max)

\* the victim named is a player of either game or nobody
SocketSteal(max) ==
  \E s \in Connected, victimId \in VictimInputs \cup Range(OtherPlayerIds) :
    \E stolen \in RESOURCE_TYPES \cup {NULL} :
      /\ getPlayerGameCode(playerGameMap, PlayerOf(gateway, s)) # NULL
      /\ stolen \in StealChoices(activeGames[getPlayerGameCode(playerGameMap,
                                                               PlayerOf(gateway, s))],
                                  victimId)
      /\ StoreGames(onRobberSteal(activeGames, playerGameMap, PlayerOf(gateway, s),
                                  victimId, stolen), max)

SocketBuildSettlement(max) ==
  \E s \in Connected, vertexId \in VertexIds :
    StoreGames(onBuildSettlement(activeGames, playerGameMap, PlayerOf(gateway, s), vertexId), max)

SocketBuildCity(max) ==
  \E s \in Connected, vertexId \in VertexIds :
    StoreGames(onBuildCity(activeGames, playerGameMap, PlayerOf(gateway, s), vertexId), max)

SocketBuildRoad(max) ==
  \E s \in Connected, edgeId \in EdgeIds :
    StoreGames(onBuildRoad(activeGames, playerGameMap, PlayerOf(gateway, s), edgeId), max)

SocketBuyDevCard(max) ==
  \E s \in Connected, cardType \in DevCardTypes :
    StoreGames(onBuildDevCard(activeGames, playerGameMap, PlayerOf(gateway, s), cardType), max)

SocketEndTurn(max) ==
  \E s \in Connected :
    StoreGames(onEndTurn(activeGames, playerGameMap, PlayerOf(gateway, s)), max)

NextTwo ==
  \/ SocketRollForOrder(MaxStepsTwo)
  \/ SocketRollDice(MaxStepsTwo)
  \/ SocketDiscard(MaxStepsTwo)
  \/ SocketMoveRobber(MaxStepsTwo)
  \/ SocketSteal(MaxStepsTwo)
  \/ SocketBuildSettlement(MaxStepsTwo)
  \/ SocketBuildCity(MaxStepsTwo)
  \/ SocketBuildRoad(MaxStepsTwo)
  \/ SocketBuyDevCard(MaxStepsTwo)
  \/ SocketEndTurn(MaxStepsTwo)

\* two games from createGame on, the players holding TwoHands
SpecTwo == InitTwo /\ [][NextTwo]_vars

(***************************************************************************)
(* The lobbies: clients connect, make and join lobbies, and the host       *)
(* starts the countdown that ends in createGame.                           *)
(***************************************************************************)
\* the player ids of the clients, which they send in the handshake
LobbyClients == <<"p1", "p2", "p3">>

\* payload.maxPlayers of lobby:create; the handler takes any number
MaxPlayersInputs == {0, 2}

\* payload.color of lobby:set_color
ColorInputs == {"blue", "orange"}

\* payload.gameCode of lobby:join (the last one is no lobby's code)
JoinInputs == Range(Codes) \cup {"ZZZZZZ"}

\* the server once every client has connected: no lobby and no game yet
InitLobby ==
  /\ game = NoGame
  /\ other = NoGame
  /\ playerGameMap = <<>>
  /\ gateway = [sockets |-> [i \in 1..Len(LobbyClients) |->
                               [playerId |-> LobbyClients[i], rooms |-> {},
                                connected |-> TRUE]],
                activeLobbies |-> <<>>,
                lobbyData |-> [c \in Range(Codes) |-> <<>>],
                timers |-> <<>>]
  /\ steps = 0

\* the gateway the handler leaves
StoreGateway(r, max) ==
  /\ steps < max
  /\ gateway' = r.gw
  /\ steps' = IF r.gw = gateway THEN steps ELSE steps + 1
  /\ UNCHANGED <<game, other, playerGameMap>>

Connect(max) ==
  \E p \in Range(LobbyClients) :
    /\ Len(gateway.sockets) < MaxSockets
    /\ StoreGateway(onConnection(gateway, p), max)

Disconnect(max) ==
  \E s \in Connected : StoreGateway(onDisconnect(gateway, s), max)

\* the code generated is the next one that was never handed out
LobbyCreate(max) ==
  \E s \in Connected, maxPlayers \in MaxPlayersInputs :
    \E k \in 1..Len(Codes) :
      /\ gateway.lobbyData[Codes[k]] = <<>>
      /\ \A j \in 1..(k - 1) : gateway.lobbyData[Codes[j]] # <<>>
      /\ StoreGateway(onLobbyCreate(gateway, s, maxPlayers, Codes[k]), max)

LobbyJoin(max) ==
  \E s \in Connected, gameCode \in JoinInputs :
    StoreGateway(onLobbyJoin(gateway, s, gameCode), max)

LobbyLeave(max) ==
  \E s \in Connected : StoreGateway(onLobbyLeave(gateway, s), max)

LobbyReady(max) ==
  \E s \in Connected, isReady \in BOOLEAN :
    StoreGateway(onLobbyReady(gateway, s, isReady), max)

LobbySetColor(max) ==
  \E s \in Connected, color \in ColorInputs :
    StoreGateway(onLobbySetColor(gateway, s, color), max)

LobbyStartGame(max) ==
  \E s \in Connected : StoreGateway(onLobbyStartGame(gateway, s), max)

\* the countdown that was started first runs out
Countdown(max) ==
  /\ steps < max
  /\ gateway.timers # <<>>
  /\ LET created == createGame(activeGames, playerGameMap,
                               Lobby(gateway, Head(gateway.timers)))
     IN  /\ game' = created.games[Codes[1]]
         /\ other' = created.games[Codes[2]]
         /\ playerGameMap' = created.pgm
  /\ gateway' = onCountdown(gateway).gw
  /\ steps' = steps + 1

NextLobby ==
  \/ Connect(MaxStepsLobby)
  \/ Disconnect(MaxStepsLobby)
  \/ LobbyCreate(MaxStepsLobby)
  \/ LobbyJoin(MaxStepsLobby)
  \/ LobbyLeave(MaxStepsLobby)
  \/ LobbyReady(MaxStepsLobby)
  \/ LobbySetColor(MaxStepsLobby)
  \/ LobbyStartGame(MaxStepsLobby)
  \/ Countdown(MaxStepsLobby)

\* the lobbies from the clients' connections on
SpecLobby == InitLobby /\ [][NextLobby]_vars

(***************************************************************************)
(* Properties                                                              *)
(***************************************************************************)
\* C1: in phase setup_second, a build:road of the player at turn-order
\* index 0 that places a road puts the game in phase playing with
\* currentPlayerIndex 0, turnPhase pre_roll and setupState null.
C1_LastSetupRoadStartsPlay ==
  \A p \in Players, e \in EdgeIds :
    LET r == handleBuildRoad(game, p, e)
        RoadPlaced ==
          /\ ~\E i \in 1..Len(game.board.roads) : game.board.roads[i].edgeId = e
          /\ \E i \in 1..Len(r.game.board.roads) :
               r.game.board.roads[i] = [edgeId |-> e, playerId |-> p]
    IN  (/\ game.phase = "setup_second"
         /\ game.currentPlayerIndex = 0
         /\ r.success
         /\ RoadPlaced)
        => /\ r.game.phase = "playing"
           /\ r.game.currentPlayerIndex = 0
           /\ r.game.turnPhase = "pre_roll"
           /\ r.game.setupState = <<>>

\* C2: a successful game:roll_dice with total t # 7 gives every player, for
\* each of their buildings and each hex the building's vertex id names that
\* bears token t, produces a resource and is not the robber's, 1 card of the
\* hex's resource for a settlement and 2 for a city, and turnPhase becomes
\* main.
C2_RollPaysProduction ==
  \A p \in Players, dice \in Dice :
    LET r == handleDiceRoll(game, p, dice)
        t == dice[1] + dice[2]
        hexes == game.board.hexes
        blds == game.board.buildings
        hits(pid, res) ==
          {pr \in (1..Len(hexes)) \X (1..Len(blds)) :
             /\ blds[pr[2]].playerId = pid
             /\ hexes[pr[1]].numberToken = t
             /\ hexes[pr[1]].id # game.board.robberHexId
             /\ TERRAIN_TO_RESOURCE[hexes[pr[1]].terrain] = res
             /\ hexes[pr[1]].id \in Range(parseVertexId(blds[pr[2]].vertexId))}
        amount == [pr \in (1..Len(hexes)) \X (1..Len(blds)) |->
                     IF blds[pr[2]].type = "city" THEN 2 ELSE 1]
        Production(pid) == [res \in RESOURCE_TYPES |-> SumOver(amount, hits(pid, res))]
    IN  (r.success /\ t # 7)
        => /\ r.game.turnPhase = "main"
           /\ \A i \in 1..Len(game.players) :
                r.game.players[i].resources =
                  addResources(game.players[i].resources,
                               Production(game.players[i].id))

\* C3: outside phase playing, game:roll_dice, game:end_turn, build:city,
\* build:dev_card, robber:move, robber:steal and robber:discard are rejected
\* and leave the game unchanged.
C3_TurnCommandsOnlyWhilePlaying ==
  game.phase # "playing" =>
    \A p \in Players :
      /\ \A dice \in Dice : handleDiceRoll(game, p, dice) = Fail(game)
      /\ handleEndTurn(game, p) = Fail(game)
      /\ \A v \in VertexIds : handleBuildCity(game, p, v) = Fail(game)
      /\ \A c \in DevCardTypes : handleBuyDevCard(game, p, c) = Fail(game)
      /\ \A h \in HexInputs : handleMoveRobber(game, p, h) = Fail(game)
      /\ \A victimId \in VictimInputs : \A stolen \in StealChoices(game, victimId) :
           handleSteal(game, p, victimId, stolen) = Fail(game)
      /\ \A res \in DiscardInputs : handleDiscard(game, p, res) = Fail(game)

\* C4: in every state a command leaves, a player whose total victory points
\* are 10 or more means winnerId is set and status and phase are finished.
C4_TenPointsFinishTheGame ==
  (\E i \in 1..Len(game.players) :
     calculateTotalVictoryPoints(game.players[i]) >= VICTORY_POINTS_TO_WIN)
  => /\ game.winnerId # NULL
     /\ game.status = "finished"
     /\ game.phase = "finished"

\* C5: board.buildings holds at most one building per vertex id, and
\* build:settlement on a vertex that holds a building leaves the game
\* unchanged.
C5_OneBuildingPerVertex ==
  LET blds == game.board.buildings IN
  /\ \A i, j \in 1..Len(blds) : i # j => blds[i].vertexId # blds[j].vertexId
  /\ \A p \in Players, v \in VertexIds :
       (\E i \in 1..Len(blds) : blds[i].vertexId = v)
       => handleBuildSettlement(game, p, v).game = game

\* C6: every player's count of each resource is at least 0.
C6_ResourcesNeverNegative ==
  \A i \in 1..Len(game.players), res \in RESOURCE_TYPES :
    game.players[i].resources[res] >= 0

\* C7: no two edge-connected vertices (two corners of the same two hexes)
\* both hold a building, and build:settlement at a vertex edge-connected to
\* one that holds a building leaves the game unchanged.
C7_DistanceRule ==
  LET blds == game.board.buildings
      EdgeConnected(v, w) ==
        /\ v # w
        /\ Cardinality(Range(parseVertexId(v)) \cap Range(parseVertexId(w))) = 2
  IN
  /\ \A i, j \in 1..Len(blds) : ~EdgeConnected(blds[i].vertexId, blds[j].vertexId)
  /\ \A p \in Players, v \in VertexIds :
       (\E i \in 1..Len(blds) : EdgeConnected(blds[i].vertexId, v))
       => handleBuildSettlement(game, p, v).game = game

\* C8: during setup_first and setup_second, build:road is rejected while
\* placementType is settlement and build:settlement is rejected while
\* placementType is road.
C8_SetupSettlementThenRoad ==
  ((game.phase = "setup_first" \/ game.phase = "setup_second") /\ game.setupState # <<>>) =>
    \A p \in Players :
      /\ game.setupState[1].placementType = "settlement"
         => \A e \in EdgeIds : handleBuildRoad(game, p, e) = Fail(game)
      /\ game.setupState[1].placementType = "road"
         => \A v \in VertexIds : handleBuildSettlement(game, p, v) = Fail(game)

\* C9: while some entry of pendingDiscards is not discarded, turnPhase is
\* discard and robber:move is rejected with the game unchanged; a
\* robber:discard makes turnPhase robber_move exactly when it is of the
\* required size and comes from the only player still pending, whoever that
\* is; a robber:discard of a player who has discarded changes nothing.
C9_DiscardBarrier ==
  LET pd == game.pendingDiscards
      Undiscarded == {i \in 1..Len(pd) : ~pd[i].discarded}
  IN
  /\ Undiscarded # {} =>
       /\ game.turnPhase = "discard"
       /\ \A p \in Players, h \in HexInputs : handleMoveRobber(game, p, h) = Fail(game)
  /\ \A p \in Players, res \in DiscardInputs :
       LET r == handleDiscard(game, p, res) IN
       /\ (game.turnPhase = "discard" /\ r.game.turnPhase = "robber_move")
          <=> (/\ game.turnPhase = "discard"
               /\ \E i \in Undiscarded :
                    /\ Undiscarded = {i}
                    /\ pd[i].playerId = p
                    /\ countResources(res) = pd[i].amountToDiscard)
       /\ (\E i \in 1..Len(pd) : pd[i].playerId = p /\ pd[i].discarded)
          => r.game = game

\* C9 at work: both players had to discard, both have, and the turn is at
\* robber_move
C9_AllDiscarded ==
  /\ game.turnPhase = "robber_move"
  /\ Len(game.pendingDiscards) = Len(PlayerIds)
  /\ \A i \in 1..Len(game.pendingDiscards) : game.pendingDiscards[i].discarded

\* C10 as stated: pendingDiscards is non-empty exactly when turnPhase is
\* discard.
C10_PendingIffDiscardPhase ==
  Len(game.pendingDiscards) > 0 <=> game.turnPhase = "discard"

\* C10 amended: pendingDiscards has an entry not yet discarded exactly when
\* turnPhase is discard.
C10_UndiscardedIffDiscardPhase ==
  (\E i \in 1..Len(game.pendingDiscards) : ~game.pendingDiscards[i].discarded)
  <=> game.turnPhase = "discard"

\* C10 at work: the discards are made, the robber has moved and stolen, and
\* the discarded entries are still listed
C10_EntriesOutliveDiscardPhase ==
  /\ game.turnPhase = "main"
  /\ Len(game.pendingDiscards) > 0
  /\ \A i \in 1..Len(game.pendingDiscards) : game.pendingDiscards[i].discarded

\* C11: a successful game:roll_dice of 7 lists in pendingDiscards exactly
\* the players holding more than 7 cards, once each, with amountToDiscard
\* half the hand rounded down and discarded false; turnPhase becomes discard
\* if the list is not empty and robber_move otherwise; no hand changes.
C11_SevenListsLargeHands ==
  \A p \in Players, dice \in Dice :
    LET r == handleDiceRoll(game, p, dice)
        pd == r.game.pendingDiscards
        Hand(i) == countResources(game.players[i].resources)
    IN  (r.success /\ dice[1] + dice[2] = 7)
        => /\ \A i \in 1..Len(game.players) :
                Cardinality({k \in 1..Len(pd) : pd[k].playerId = game.players[i].id})
                  = IF Hand(i) > 7 THEN 1 ELSE 0
           /\ \A k \in 1..Len(pd) :
                \E i \in 1..Len(game.players) :
                  /\ pd[k] = [playerId |-> game.players[i].id,
                              amountToDiscard |-> Hand(i) \div 2,
                              discarded |-> FALSE]
           /\ r.game.turnPhase = IF Len(pd) > 0 THEN "discard" ELSE "robber_move"
           /\ \A i \in 1..Len(game.players) :
                r.game.players[i].resources = game.players[i].resources

\* C11 at work: a 7 was rolled, a player holding exactly 7 cards is not
\* listed and another player is
C11_SevenCardsNotListed ==
  /\ game.lastDiceRoll = <<3, 4>>
  /\ game.turnPhase = "discard"
  /\ Len(game.pendingDiscards) = 1
  /\ ~game.pendingDiscards[1].discarded
  /\ \E i \in 1..Len(game.players) :
       /\ countResources(game.players[i].resources) = 7
       /\ game.players[i].id # game.pendingDiscards[1].playerId

\* C12: a robber:steal whose victimId is not a player other than the thief
\* owning a settlement or city on a corner of the robber's hex moves no
\* card.
C12_StealOnlyFromEligible ==
  \A p \in Players, victimId \in VictimInputs :
    \A stolen \in StealChoices(game, victimId) :
      LET r == handleSteal(game, p, victimId, stolen)
          blds == game.board.buildings
          Eligible ==
            /\ victimId # p
            /\ \E i \in 1..Len(blds) :
                 /\ blds[i].playerId = victimId
                 /\ game.board.robberHexId \in Range(parseVertexId(blds[i].vertexId))
      IN  ~Eligible =>
            \A i \in 1..Len(game.players) :
              r.game.players[i].resources = game.players[i].resources

\* C13: once a player holds Longest Road, a build:settlement or build:road
\* after which no other player has more roads than the holder leaves
\* longestRoadHolder and every hasLongestRoad flag as they were (and a
\* build:road leaves every publicVictoryPoints as it was); the holder
\* changes only to a player with more roads than the holder.
C13_LongestRoadIncumbentKeeps ==
  LET h == game.longestRoadHolder
      Roads(g, id) == Len(FindPlayer(g, id).roads)
      Kept(g2) ==
        /\ g2.longestRoadHolder = h
        /\ \A i \in 1..Len(game.players) :
             g2.players[i].hasLongestRoad = game.players[i].hasLongestRoad
      Overtaken(g2) ==
        /\ g2.longestRoadHolder \in Players \ {h}
        /\ Roads(g2, g2.longestRoadHolder) > Roads(g2, h)
  IN  h # NULL =>
        \A p \in Players :
          /\ \A v \in VertexIds :
               LET r == handleBuildSettlement(game, p, v)
               IN  r.success => Kept(r.game) \/ Overtaken(r.game)
          /\ \A e \in BuildEdgeIds :
               LET r == handleBuildRoad(game, p, e)
               IN  r.success =>
                     \/ /\ Kept(r.game)
                        /\ \A i \in 1..Len(game.players) :
                             r.game.players[i].publicVictoryPoints
                               = game.players[i].publicVictoryPoints
                     \/ Overtaken(r.game)

\* C14: the sum over players of publicVictoryPoints is the number of
\* settlements on the board, plus 2 for each city on the board, plus 2 if
\* longestRoadHolder is set, plus 2 if largestArmyHolder is set.
C14_PublicPointsAddUp ==
  LET blds == game.board.buildings
      points == [i \in 1..Len(game.players) |-> game.players[i].publicVictoryPoints]
  IN  SumOver(points, 1..Len(game.players))
        = Cardinality({i \in 1..Len(blds) : blds[i].type = "settlement"})
          + 2 * Cardinality({i \in 1..Len(blds) : blds[i].type = "city"})
          + (IF game.longestRoadHolder # NULL THEN 2 ELSE 0)
          + (IF game.largestArmyHolder # NULL THEN 2 ELSE 0)

\* C14 at work: a settlement, a city and the Longest Road award are on the
\* board
C14_SettlementCityAndAward ==
  /\ \E i \in 1..Len(game.board.buildings) : game.board.buildings[i].type = "settlement"
  /\ \E i \in 1..Len(game.board.buildings) : game.board.buildings[i].type = "city"
  /\ game.longestRoadHolder # NULL

\* C15: a game command the rules reject (a road on an edge that holds a
\* road, the robber moved to its own hex or to no hex of the board, a
\* discard of the wrong size or by a player with no discard pending, a city
\* on a vertex without the submitter's settlement, a development card the
\* submitter cannot pay or from an empty deck) leaves the stored games
\* unchanged and emits build:error to the submitting socket and nothing to
\* the room.
C15_RejectedCommandsAreLocal ==
  \A p \in Players :
    LET Rejected(r) == r.games = activeGames /\ r.emits = <<ToSocket("build:error")>>
        roads == game.board.roads
        blds == game.board.buildings
        pend == game.pendingDiscards
    IN
    /\ \A e \in EdgeIds :
         (\E i \in 1..Len(roads) : roads[i].edgeId = e)
         => Rejected(onBuildRoad(activeGames, playerGameMap, p, e))
    /\ \A h \in HexInputs :
         (\/ h = game.board.robberHexId
          \/ ~\E i \in 1..Len(game.board.hexes) : game.board.hexes[i].id = h)
         => Rejected(onRobberMove(activeGames, playerGameMap, p, h))
    /\ \A res \in DiscardInputs :
         (~\E i \in 1..Len(pend) :
             /\ pend[i].playerId = p
             /\ ~pend[i].discarded
             /\ pend[i].amountToDiscard = countResources(res))
         => Rejected(onRobberDiscard(activeGames, playerGameMap, p, res))
    /\ \A v \in VertexIds :
         (~\E i \in 1..Len(blds) :
             blds[i] = [vertexId |-> v, playerId |-> p, type |-> "settlement"])
         => Rejected(onBuildCity(activeGames, playerGameMap, p, v))
    /\ \A c \in DevCardTypes :
         (\/ ~canAfford(FindPlayer(game, p).resources, BUILDING_COSTS.devCard)
          \/ game.devCardDeckCount <= 0)
         => Rejected(onBuildDevCard(activeGames, playerGameMap, p, c))

\* C16: when a player of a started game connects on a new socket with the
\* same playerId, the socket is subscribed to the room of the game and is
\* sent game:state, by the connection or by the lobby:join for the game's
\* code that the new socket sends next.
C16_ReconnectResubscribes ==
  \A p \in Range(LobbyClients) :
    LET x == getPlayerGameCode(playerGameMap, p)
        c == onConnection(gateway, p)
        new == Len(c.gw.sockets)
        j == onLobbyJoin(c.gw, new, x)
        sent == c.emits \o j.emits
    IN  x # NULL =>
          /\ new \in Subscribers(c.gw, x) \/ new \in Subscribers(j.gw, x)
          /\ \E i \in 1..Len(sent) : sent[i] = ToSocket("game:state")

\* C17: lobby:start_game starts a countdown only for a lobby whose host is
\* the requester, that has at least 2 players and whose players other than
\* the host all have isReady; a lobby:start_game that starts no countdown
\* leaves the lobbies and the timers unchanged.
C17_StartNeedsHostTwoPlayersAllReady ==
  \A s \in Connected :
    LET r == onLobbyStartGame(gateway, s)
        started == r.gw.timers # gateway.timers
        code == r.gw.timers[Len(r.gw.timers)]
        lobby == Lobby(gateway, code)
    IN  /\ started =>
             /\ r.gw.timers = Append(gateway.timers, code)
             /\ HasLobby(gateway, code)
             /\ lobby.hostId = PlayerOf(gateway, s)
             /\ Len(lobby.players) >= 2
             /\ \A i \in 1..Len(lobby.players) :
                  lobby.players[i].id # lobby.hostId => lobby.players[i].isReady
             /\ r.gw.lobbyData[code][1].status = "starting"
        /\ ~started => r.gw = gateway

\* C17 (witness): a countdown is running for a lobby of two players whose
\* host started it, while a second lobby, whose host has nobody to play
\* with, is still waiting
C17_CountdownStarted ==
  /\ gateway.timers = <<Codes[1]>>
  /\ Lobby(gateway, Codes[1]).status = "starting"
  /\ Len(Lobby(gateway, Codes[1]).players) = 2
  /\ HasLobby(gateway, Codes[2])
  /\ Lobby(gateway, Codes[2]).status = "waiting"

\* C18: no two players of a lobby have the same colour, no lobby holds more
\* players than its maxPlayers, and no two players of a stored game have
\* the same colour.
C18_ColorsDistinctWithinCapacity ==
  /\ \A k \in 1..Len(gateway.activeLobbies) :
       LET lobby == Lobby(gateway, gateway.activeLobbies[k]) IN
       /\ \A i, j \in 1..Len(lobby.players) :
            i # j => lobby.players[i].color # lobby.players[j].color
       /\ Len(lobby.players) <= lobby.maxPlayers
  /\ \A c \in Range(Codes) :
       activeGames[c] # NoGame =>
         \A i, j \in 1..Len(activeGames[c].players) :
           i # j => activeGames[c].players[i].color # activeGames[c].players[j].color

\* C19: with two games stored under different codes, a game command of a
\* player of the game under code x leaves the game stored under the other
\* code unchanged and emits only to the submitting socket or to room x.
C19_CommandsStayInTheirGame ==
  \A s \in Connected :
    LET p == PlayerOf(gateway, s)
        x == getPlayerGameCode(playerGameMap, p)
        Local(r) ==
          /\ \A y \in Range(Codes) \ {x} : r.games[y] = activeGames[y]
          /\ \A i \in 1..Len(r.emits) : r.emits[i].to \in {<<"socket">>, <<"room", x>>}
    IN  x # NULL =>
          /\ \A dice \in Dice :
               /\ Local(onRollForOrder(activeGames, playerGameMap, p, dice))
               /\ Local(onRollDice(activeGames, playerGameMap, p, dice))
          /\ \A res \in DiscardInputs :
               Local(onRobberDiscard(activeGames, playerGameMap, p, res))
          /\ \A h \in HexInputs : Local(onRobberMove(activeGames, playerGameMap, p, h))
          /\ \A victimId \in VictimInputs \cup Range(OtherPlayerIds) :
               \A stolen \in StealChoices(activeGames[x], victimId) :
                 Local(onRobberSteal(activeGames, playerGameMap, p, victimId, stolen))
          /\ \A v \in VertexIds :
               /\ Local(onBuildSettlement(activeGames, playerGameMap, p, v))
               /\ Local(onBuildCity(activeGames, playerGameMap, p, v))
          /\ \A e \in EdgeIds : Local(onBuildRoad(activeGames, playerGameMap, p, e))
          /\ \A c \in DevCardTypes : Local(onBuildDevCard(activeGames, playerGameMap, p, c))
          /\ Local(onEndTurn(activeGames, playerGameMap, p))
          /\ Local(onRequestState(activeGames, playerGameMap, p))

\* C19 (witness): both games are stored and have moved on by commands of
\* their own players: in one the first player has ended a turn, in the
\* other a roll of 7 has listed the discards
C19_BothGamesMoved ==
  /\ game.turnPhase = "pre_roll"
  /\ game.currentPlayerIndex = 1
  /\ other.turnPhase = "discard"
  /\ other.lastDiceRoll = <<3, 4>>

\* C20: every player has at most 5 settlements, at most 4 cities and at
\* most 15 roads.
C20_PieceLimits ==
  \A i \in 1..Len(game.players) :
    /\ Len(game.players[i].settlements) <= BUILDING_LIMITS.settlements
    /\ Len(game.players[i].cities) <= BUILDING_LIMITS.cities
    /\ Len(game.players[i].roads) <= BUILDING_LIMITS.roads

\* C21: board.roads holds at most one road per edge id, no edge id is in two
\* roads lists of the players or twice in one, and build:road on an edge id
\* that holds a road leaves board.roads and every player's roads unchanged.
C21_OneRoadPerEdge ==
  LET roads == game.board.roads
      owned == {pr \in (1..Len(game.players)) \X (1..Len(roads)) :
                  pr[2] <= Len(game.players[pr[1]].roads)}
  IN
  /\ \A i, j \in 1..Len(roads) : i # j => roads[i].edgeId # roads[j].edgeId
  /\ \A a, b \in owned :
       a # b => game.players[a[1]].roads[a[2]] # game.players[b[1]].roads[b[2]]
  /\ \A p \in Players, e \in EdgeIds :
       (\E i \in 1..Len(roads) : roads[i].edgeId = e)
       => LET r == handleBuildRoad(game, p, e) IN
          /\ r.game.board.roads = roads
          /\ \A i \in 1..Len(game.players) :
               r.game.players[i].roads = game.players[i].roads

\* C21 (witness): each of the two players has a road on the board, so a
\* build:road of either on the other's edge meets an occupied edge
C21_BothPlayersHaveRoad ==
  /\ Len(game.board.roads) = 2
  /\ game.board.roads[1].playerId # game.board.roads[2].playerId

\* C22: phase is finished if and only if winnerId is not null, and then
\* status is finished.
C22_FinishedIffWinner ==
  /\ game.phase = "finished" <=> game.winnerId # NULL
  /\ game.winnerId # NULL => game.status = "finished"

\* C22 (witness): checkWinner has declared a winner
C22_WinnerDeclared ==
  /\ game.winnerId = "p1"
  /\ game.phase = "finished"
  /\ calculateTotalVictoryPoints(FindPlayer(game, "p1")) >= VICTORY_POINTS_TO_WIN

\* C23: devCardDeckCount plus the number of development cards the players
\* hold is 25 and devCardDeckCount is at least 0; a build:dev_card that
\* succeeds takes one card off the deck and gives the buyer exactly one
\* card, and one that fails changes neither the deck nor any player's cards.
C23_DeckAccounting ==
  LET held(g) == [i \in 1..Len(g.players) |-> Len(g.players[i].devCards)] IN
  /\ game.devCardDeckCount + SumOver(held(game), 1..Len(game.players)) = 25
  /\ game.devCardDeckCount >= 0
  /\ \A p \in Players, c \in DevCardTypes :
       LET r == handleBuyDevCard(game, p, c) IN
       IF r.success
       THEN /\ r.game.devCardDeckCount = game.devCardDeckCount - 1
            /\ \A i \in 1..Len(game.players) :
                 held(r.game)[i] = held(game)[i] + (IF game.players[i].id = p THEN 1 ELSE 0)
       ELSE /\ r.game.devCardDeckCount = game.devCardDeckCount
            /\ held(r.game) = held(game)

C25_RollForOrder ==
  LET st == game.rollForOrderState
      seating == [i \in 1..Len(game.players) |-> game.players[i].id]
      seat(id) == CHOOSE i \in 1..Len(seating) : seating[i] = id
  IN
  /\ game.phase = "roll_for_order" =>
       /\ game.turnOrder = seating
       /\ st.currentRollerIndex < Len(seating)
       /\ DOMAIN st.rolls = {seating[i] : i \in 1..st.currentRollerIndex}
  /\ \A p \in Players, dice \in Dice :
       LET r == handleRollForOrder(game, p, dice)
           now == r.game.rollForOrderState
           order == r.game.turnOrder
       IN  IF game.phase = "roll_for_order" /\ p = seating[st.currentRollerIndex + 1]
           THEN /\ r.success
                /\ DOMAIN now.rolls = DOMAIN st.rolls \cup {p}
                /\ now.rolls[p] = dice[1] + dice[2]
                /\ \A q \in DOMAIN st.rolls : now.rolls[q] = st.rolls[q]
                /\ now.currentRollerIndex = st.currentRollerIndex + 1
                /\ r.game.players = game.players
                /\ IF now.currentRollerIndex = Len(seating)
                   THEN /\ r.game.phase = "setup_first"
                        /\ r.game.currentPlayerIndex = 0
                        /\ Len(order) = Len(seating)
                        /\ Range(order) = Range(seating)
                        /\ \A i, j \in 1..Len(order) :
                             i < j =>
                               \/ now.rolls[order[i]] > now.rolls[order[j]]
                               \/ /\ now.rolls[order[i]] = now.rolls[order[j]]
                                  /\ seat(order[i]) < seat(order[j])
                   ELSE /\ r.game.phase = "roll_for_order"
                        /\ order = seating
           ELSE ~r.success /\ r.game = game

\* both players rolled the same total and the order is the seating order
C25_TieKeepsSeatingOrder ==
  /\ game.phase = "setup_first"
  /\ game.rollForOrderState.allRolled
  /\ game.rollForOrderState.rolls["p1"] = game.rollForOrderState.rolls["p2"]
  /\ game.turnOrder = <<"p1", "p2">>
  /\ game.currentPlayerIndex = 0

\* C26: updateLongestRoad and updateLargestArmy are idempotent: applied to
\* the stored game, or to the game placeRoad hands to updateLongestRoad, a
\* second application changes nothing the first one left.
C26_AwardUpdatesIdempotent ==
  \A g \in {game} \cup {placeRoad(game, p, e) : p \in Players, e \in BuildEdgeIds} :
    /\ updateLongestRoad(updateLongestRoad(g)) = updateLongestRoad(g)
    /\ updateLargestArmy(updateLargestArmy(g)) = updateLargestArmy(g)

\* C27: the lobby hands off to game creation at most once: a lobby:start_game
\* of the host of a lobby whose status is starting or started schedules no
\* countdown, and for every code the countdowns that are pending plus the game
\* already created make at most one createGame.
C27_OneGamePerLobby ==
  /\ \A s \in Connected :
       LET code == LobbyOfHost(gateway, gateway.activeLobbies, PlayerOf(gateway, s))
       IN  (code # NULL /\ Lobby(gateway, code).status \in {"starting", "started"})
             => onLobbyStartGame(gateway, s).gw.timers = gateway.timers
  /\ \A c \in Range(Codes) :
       Cardinality({i \in 1..Len(gateway.timers) : gateway.timers[i] = c})
         + (IF activeGames[c] # NoGame THEN 1 ELSE 0) <= 1

\* C28: whenever a countdown is pending, the game that createGame makes of
\* its lobby when it runs out has at least 2 players, and the lobby is still
\* in activeLobbies.
C28_CountdownLobbyStillPlayable ==
  gateway.timers # <<>> =>
    LET code == Head(gateway.timers)
        created == createGame(activeGames, playerGameMap, Lobby(gateway, code))
    IN  /\ Len(created.games[code].players) >= 2
        /\ HasLobby(gateway, code)

\* C29: stealResource conserves cards: for every thief, victim and card
\* picked, the hands of all players together hold as many cards after as
\* before, a steal that names a card moves exactly that card from the victim
\* to the thief, one that names none leaves every hand alone, and turnPhase
\* is main afterwards.
C29_StealConservesCards ==
  LET cards(g) == [i \in 1..Len(g.players) |-> countResources(g.players[i].resources)]
      total(g) == SumOver(cards(g), 1..Len(g.players))
  IN
  \A thiefId \in Players, victimId \in VictimInputs :
    \A stolen \in StealChoices(game, victimId) :
      LET r == stealResource(game, thiefId, victimId, stolen) IN
      /\ r.game.turnPhase = "main"
      /\ total(r.game) = total(game)
      /\ IF r.stolenResource = NULL
         THEN r.game.players = game.players
         ELSE \A i \in 1..Len(game.players) :
                LET before == game.players[i]
                    after == r.game.players[i]
                IN  IF before.id = victimId
                    THEN after.resources = subtractResources(before.resources, One(r.stolenResource))
                    ELSE IF before.id = thiefId
                    THEN after.resources = addResources(before.resources, One(r.stolenResource))
                    ELSE after = before

\* C30: phase finished is absorbing: once a winner is declared, every game
\* command of every player leaves the stored game as it is, the winnerId
\* included.
C30_FinishedIsAbsorbing ==
  game.phase = "finished" =>
    \A p \in Players :
      LET results ==
            {handleRollForOrder(game, p, dice) : dice \in Dice}
              \cup {handleDiceRoll(game, p, dice) : dice \in Dice}
              \cup {handleDiscard(game, p, resources) : resources \in DiscardInputs}
              \cup {handleMoveRobber(game, p, hex) : hex \in HexInputs}
              \cup UNION {{handleSteal(game, p, victimId, stolen) :
                             stolen \in StealChoices(game, victimId)} :
                          victimId \in VictimInputs}
              \cup {handleBuildSettlement(game, p, vertexId) : vertexId \in VertexIds}
              \cup {handleBuildCity(game, p, vertexId) : vertexId \in VertexIds}
              \cup {handleBuildRoad(game, p, edgeId) : edgeId \in BuildEdgeIds}
              \cup {handleBuyDevCard(game, p, cardType) : cardType \in DevCardTypes}
              \cup {handleEndTurn(game, p)}
      IN  \A r \in results :
            /\ r.game = game
            /\ r.game.winnerId = game.winnerId

====
